---- MODULE Spec2Model ----
(***************************************************************************)
(* A model of the scholarly-metrics engine of impactsparkpro:              *)
(*   src/assets/app_functions.py   calculate_impact_metrics,               *)
(*                                 analyze_publications_by_time,           *)
(*                                 analyze_authors, analyze_keywords,      *)
(*                                 find_similar_papers                     *)
(*   src/utils/data_processing.py  calculate_metrics                       *)
(*                                                                         *)
(* The state is the record batch a caller holds (a pandas DataFrame, which *)
(* the engine functions update in place), the value the last call returned *)
(* (or the exception it raised) and the calendar year of the clock.        *)
(*                                                                         *)
(* Numbers that pandas holds as floats are exact rationals here: a         *)
(* fraction [num, den] in lowest terms.  Text is a sequence of one-        *)
(* character strings, so that splitting, trimming and parsing are computed *)
(* as the code computes them.                                              *)
(***************************************************************************)
EXTENDS Integers, Sequences, FiniteSets, TLC

VARIABLES
    df,     \* the caller's batch: [cols: set of column names, rows: sequence of rows]
    arg,    \* the batch as it was handed to the last call
    op,     \* the name of the function called last ("none" before any call)
    ret,    \* what that call returned: [exc |-> "none", val |-> value] or [exc |-> name]
    now,    \* datetime.now().year
    params, \* what the last call took besides the batch: its other arguments,
            \* the year it read from the clock (0 where it takes none) and
            \* the search method of a search ("none" otherwise)
    ties,   \* the order in which the build's np.argsort leaves equal values
    session \* st.session_state of the results page: search_performed,
            \* search_results and metrics (None is <<>>, a value v is <<v>>)
            \* and the values of the sort widgets

vars == <<df, arg, op, ret, now, params, ties, session>>

----------------------------------------------------------------------------
(* Bounds of the checked input families *)

\* citation vectors: every vector over 0..MaxCit of length <= MaxLen
MaxCit == 10
MaxLen == 3

\* find_similar_papers: target positions up to MaxTarget, up to MaxN results
MaxTarget == 1
MaxN == 2

----------------------------------------------------------------------------
(* Cells.  Every cell of a batch has the same shape, so that cells of      *)
(* different kinds can be compared: t is the kind, n / d the number (n is  *)
(* the date yyyymmdd of a timestamp), s the text.                          *)

Num(n) == [t |-> "num", n |-> n, d |-> 1, s |-> <<>>]
Str(s) == [t |-> "str", n |-> 0, d |-> 1, s |-> s]
Ts(n)  == [t |-> "ts",  n |-> n, d |-> 1, s |-> <<>>]   \* a Timestamp at midnight
NaN    == [t |-> "nan", n |-> 0, d |-> 1, s |-> <<>>]   \* a missing value
None   == [t |-> "none", n |-> 0, d |-> 1, s |-> <<>>]  \* None, read out of a column

\* pd.notna(x)
notna(v) == v.t # "nan"

----------------------------------------------------------------------------
(* Exact arithmetic *)

RECURSIVE GCD(_, _)
GCD(a, b) == IF b = 0 THEN a ELSE GCD(b, a % b)

\* n / d (d > 0) in lowest terms
Frac(n, d) == LET g == GCD(n, d) IN [num |-> n \div g, den |-> d \div g]

FracLeq(x, y) == x.num * y.den <= y.num * x.den
FracAdd(x, y) == Frac(x.num * y.den + y.num * x.den, x.den * y.den)

\* x >= k for a fraction x and an integer k
FracGeqInt(x, k) == x.num >= k * x.den

\* a float cell holding the fraction x
Flt(x) == [t |-> "num", n |-> x.num, d |-> x.den, s |-> <<>>]

Zero == Frac(0, 1)

RECURSIVE SumSeq(_)
SumSeq(s) == IF s = <<>> THEN 0 ELSE Head(s) + SumSeq(Tail(s))

\* the sum of a sequence of fractions
RECURSIVE SumFracs(_)
SumFracs(s) == IF s = <<>> THEN Zero ELSE FracAdd(Head(s), SumFracs(Tail(s)))

Range(s) == {s[i] : i \in DOMAIN s}

\* the largest and the smallest of a sequence of fractions
SeqMax(s) == CHOOSE m \in Range(s) : \A x \in Range(s) : FracLeq(x, m)
SeqMin(s) == CHOOSE m \in Range(s) : \A x \in Range(s) : FracLeq(m, x)

RemoveAt(s, i) == SubSeq(s, 1, i - 1) \o SubSeq(s, i + 1, Len(s))

FirstIndexOf(s, x) == CHOOSE i \in DOMAIN s : s[i] = x /\ \A j \in 1..(i - 1) : s[j] # x

\* Series.sort_values(ascending=False).values on numbers
RECURSIVE SortDesc(_)
SortDesc(s) ==
    IF s = <<>> THEN <<>>
    ELSE LET m == SeqMax(s)
         IN  <<m>> \o SortDesc(RemoveAt(s, FirstIndexOf(s, m)))

\* the ascending order np.percentile puts its data in
RECURSIVE SortAsc(_)
SortAsc(s) ==
    IF s = <<>> THEN <<>>
    ELSE LET m == SeqMin(s)
         IN  <<m>> \o SortAsc(RemoveAt(s, FirstIndexOf(s, m)))

----------------------------------------------------------------------------
(* Text *)

Digits == <<"0", "1", "2", "3", "4", "5", "6", "7", "8", "9">>

IsDigit(c) == \E i \in DOMAIN Digits : Digits[i] = c
DigitVal(c) == (CHOOSE i \in DOMAIN Digits : Digits[i] = c) - 1

RECURSIVE ParseInt(_)
ParseInt(s) ==
    IF s = <<>> THEN 0
    ELSE 10 * ParseInt(SubSeq(s, 1, Len(s) - 1)) + DigitVal(s[Len(s)])

Uppers ==
    <<"A", "B", "C", "D", "E", "F", "G", "H", "I", "J", "K", "L", "M",
      "N", "O", "P", "Q", "R", "S", "T", "U", "V", "W", "X", "Y", "Z">>
Lowers ==
    <<"a", "b", "c", "d", "e", "f", "g", "h", "i", "j", "k", "l", "m",
      "n", "o", "p", "q", "r", "s", "t", "u", "v", "w", "x", "y", "z">>

\* str.lower()
lower(c) ==
    IF \E i \in DOMAIN Uppers : Uppers[i] = c
    THEN Lowers[CHOOSE i \in DOMAIN Uppers : Uppers[i] = c]
    ELSE c

lowercase(s) == [i \in DOMAIN s |-> lower(s[i])]

\* the characters str.strip() removes: those of str.isspace().  Of these
\* the set holds the ASCII ones (space, tab, line feed, vertical tab, form
\* feed, carriage return and the separators 1C-1F); the others (U+0085,
\* U+00A0, U+1680, U+2000-U+200A, U+2028, U+2029, U+202F, U+205F, U+3000)
\* are characters no text of the model holds.
IsSpace(c) == c \in {" ", "\t", "\n", "\r", "\f", "", "", "", "", ""}

RECURSIVE lstrip(_)
lstrip(s) == IF s # <<>> /\ IsSpace(Head(s)) THEN lstrip(Tail(s)) ELSE s

RECURSIVE rstrip(_)
rstrip(s) ==
    IF s # <<>> /\ IsSpace(s[Len(s)]) THEN rstrip(SubSeq(s, 1, Len(s) - 1)) ELSE s

\* str.strip()
strip(s) == rstrip(lstrip(s))

\* str.split(sep) for a one-character sep: the pieces between the separators,
\* empty pieces included; the empty text gives one empty piece
RECURSIVE split(_, _)
split(s, sep) ==
    IF \A i \in DOMAIN s : s[i] # sep THEN <<s>>
    ELSE LET i == FirstIndexOf(s, sep)
         IN  <<SubSeq(s, 1, i - 1)>> \o split(SubSeq(s, i + 1, Len(s)), sep)

RECURSIVE Flatten(_)
Flatten(ss) == IF ss = <<>> THEN <<>> ELSE Head(ss) \o Flatten(Tail(ss))

\* the members of s in the order of their first occurrence (the key order of
\* a dict filled in the order of s)
RECURSIVE Distinct(_)
Distinct(s) ==
    IF s = <<>> THEN <<>>
    ELSE LET init == Distinct(SubSeq(s, 1, Len(s) - 1))
             x == s[Len(s)]
         IN  IF \E i \in DOMAIN init : init[i] = x THEN init ELSE Append(init, x)

----------------------------------------------------------------------------
(* DataFrames *)

\* pd.DataFrame()
EmptyFrame == [cols |-> {}, rows |-> <<>>]

\* df.empty: no rows or no columns
empty(d) == Len(d.rows) = 0 \/ d.cols = {}

\* df[c] as the sequence of its cells
Col(d, c) == [i \in 1..Len(d.rows) |-> d.rows[i][c]]

\* df[c] = vals
SetCol(d, c, vals) ==
    [cols |-> d.cols \cup {c},
     rows |-> [i \in 1..Len(d.rows) |->
                 [k \in d.cols \cup {c} |-> IF k = c THEN vals[i] ELSE d.rows[i][k]]]]

\* the numbers among cells, and whether text is among them
NumsOf(cells) == SelectSeq(cells, LAMBDA v : v.t = "num")
HasStr(cells) == \E i \in DOMAIN cells : cells[i].t = "str"

Ok(v)     == [exc |-> "none", val |-> v]
Raised(e) == [exc |-> e]

----------------------------------------------------------------------------
(* Citation statistics: calculate_impact_metrics *)

\* the text without the white space the parser of pd.to_numeric skips on
\* both sides of a numeral (isspace of the C locale)
RECURSIVE SkipSpace(_)
SkipSpace(s) ==
    LET space == {" ", "\t", "\n", "\r", "\f", ""}
    IN  IF s = <<>> THEN s
        ELSE IF Head(s) \in space THEN SkipSpace(Tail(s))
        ELSE IF s[Len(s)] \in space THEN SkipSpace(SubSeq(s, 1, Len(s) - 1))
        ELSE s

\* the length of the run of digits s starts with
RECURSIVE DigitRun(_)
DigitRun(s) == IF s # <<>> /\ IsDigit(Head(s)) THEN 1 + DigitRun(Tail(s)) ELSE 0

RECURSIVE Pow10(_)
Pow10(k) == IF k = 0 THEN 1 ELSE 10 * Pow10(k - 1)

\* the digits of a numeral without sign: digits with at most one decimal
\* point; nf is the number of digits after the point, rest what follows
ParseMantissa(u) ==
    LET mantissa(ni, v, nf) ==
            [digits |-> SubSeq(u, 1, ni) \o SubSeq(v, 1, nf),
             nf |-> nf,
             rest |-> SubSeq(v, nf + 1, Len(v))]
        fraction(ni, v) == mantissa(ni, v, DigitRun(v))
        integer(ni) ==
            IF ni < Len(u) /\ u[ni + 1] = "."
            THEN fraction(ni, SubSeq(u, ni + 2, Len(u)))
            ELSE mantissa(ni, SubSeq(u, ni + 1, Len(u)), 0)
    IN  integer(DigitRun(u))

\* what follows the digits: nothing, or an exponent e or E with a sign and
\* at least one digit
ParseExponent(w) ==
    IF w = <<>> THEN [ok |-> TRUE, value |-> 0]
    ELSE LET digits(y, negative) ==
                 IF Head(w) \in {"e", "E"} /\ y # <<>> /\ DigitRun(y) = Len(y)
                 THEN [ok |-> TRUE, value |-> IF negative THEN 0 - ParseInt(y) ELSE ParseInt(y)]
                 ELSE [ok |-> FALSE, value |-> 0]
             signed(x) ==
                 IF x # <<>> /\ Head(x) \in {"+", "-"}
                 THEN digits(Tail(x), Head(x) = "-")
                 ELSE digits(x, FALSE)
         IN  signed(Tail(w))

\* the numeral a text is: white space, a sign, the digits, an exponent,
\* white space; ok is FALSE for every other text.  A text that is no
\* numeral is infinite when the whole of it, white space included, is a
\* name of infinity with or without a sign.
ParseNumber(text) ==
    LET number(m, e, u, negative) ==
            [ok |-> m.digits # <<>> /\ e.ok,
             infinite |-> lowercase(IF text # <<>> /\ Head(text) \in {"+", "-"}
                                    THEN Tail(text) ELSE text)
                              \in {<<"i", "n", "f">>,
                                   <<"i", "n", "f", "i", "n", "i", "t", "y">>},
             negative |-> negative,
             value |-> IF e.value >= m.nf
                       THEN Frac(ParseInt(m.digits) * Pow10(e.value - m.nf), 1)
                       ELSE Frac(ParseInt(m.digits), Pow10(m.nf - e.value))]
        exponent(m, u, negative) == number(m, ParseExponent(m.rest), u, negative)
        unsigned(u, negative) == exponent(ParseMantissa(u), u, negative)
        signed(t) ==
            IF t # <<>> /\ Head(t) \in {"+", "-"}
            THEN unsigned(Tail(t), Head(t) = "-")
            ELSE unsigned(t, FALSE)
    IN  signed(SkipSpace(text))

\* pd.to_numeric(x, errors='coerce') of one cell: a number stays, a text
\* that is a numeral is read ('3.5', '-3', '+7', '1e3', ' 12 '), the names
\* of the infinities are read as such, and anything else (the empty text,
\* 'nan', text that is no numeral, None) becomes NaN.  The statistics below
\* are written for finite counts: no batch of the checked families holds an
\* infinite one
to_numeric(v) ==
    IF v.t \in {"num", "inf"} THEN v
    ELSE IF v.t # "str" THEN NaN
    ELSE LET p == ParseNumber(v.s)
         IN  IF p.ok
             THEN Flt([num |-> IF p.negative THEN 0 - p.value.num ELSE p.value.num,
                       den |-> p.value.den])
             ELSE IF p.infinite  \* an infinite float: n is its sign
             THEN [t |-> "inf", n |-> IF p.negative THEN 0 - 1 ELSE 1, d |-> 1, s |-> <<>>]
             ELSE NaN

\* .fillna(0)
fillna(v) == IF v.t = "nan" THEN Num(0) ELSE v

\* line 36: the citations column, coerced
coerce_citations(col) == [i \in DOMAIN col |-> fillna(to_numeric(col[i]))]

\* .values of a numeric column: the number of each cell
Values(col) == [i \in DOMAIN col |-> [num |-> col[i].n, den |-> col[i].d]]

\* line 44: df['citations'].sort_values(ascending=False).values
citation_counts_unsorted(values) == values
citation_counts(values) == SortDesc(values)

\* line 45: sum(citation_counts >= arange(1, N + 1))
h_index_strict(counts) == Cardinality({i \in DOMAIN counts : counts[i].num > i * counts[i].den})
h_index_from_zero(counts) == Cardinality({i \in DOMAIN counts : FracGeqInt(counts[i], i - 1)})
h_index(counts) == Cardinality({i \in DOMAIN counts : FracGeqInt(counts[i], i)})

\* line 48: sum(citation_counts >= 10)
i10_index_strict(counts) == Cardinality({i \in DOMAIN counts : counts[i].num > 10 * counts[i].den})
i10_index(counts) == Cardinality({i \in DOMAIN counts : FracGeqInt(counts[i], 10)})

\* lines 51-58: the walk from rank i with the running sum so far and the
\* g found so far; it stops at the first rank that fails
RECURSIVE g_walk(_, _, _, _)
g_walk(counts, i, cumulative, g) ==
    IF i > Len(counts) THEN g
    ELSE LET c == FracAdd(cumulative, counts[i])
         IN  IF FracGeqInt(c, i * i) THEN g_walk(counts, i + 1, c, i) ELSE g

\* the walk with "cumulative_citations = count" for "+= count"
g_index_not_cumulative(counts) ==
    LET RECURSIVE w(_, _)
        w(i, g) ==
            IF i > Len(counts) THEN g
            ELSE IF FracGeqInt(counts[i], i * i) THEN w(i + 1, i) ELSE g
    IN  w(1, 0)
g_index(counts) == g_walk(counts, 1, Zero, 0)

\* line 61
percentiles == <<10, 25, 50, 75, 90, 95, 99>>

\* line 65: np.percentile(values, p), linear interpolation between the two
\* closest ranks of the ascending data: position p/100 * (N - 1), 0-based
percentile_of_sorted(a, p) ==
    LET pos == p * (Len(a) - 1)
        lo  == pos \div 100
        r   == pos % 100
    IN  IF r = 0 THEN a[lo + 1]
        ELSE LET x == a[lo + 1]
                 y == a[lo + 2]
             IN  Frac((100 - r) * x.num * y.den + r * y.num * x.den, 100 * x.den * y.den)

percentile_unsorted(values, p) == percentile_of_sorted(values, p)
percentile(values, p) == percentile_of_sorted(SortAsc(values), p)

\* lines 62-69
citation_percentiles(values) ==
    [k \in DOMAIN percentiles |->
        [percentile |-> percentiles[k], value |-> percentile(values, percentiles[k])]]

\* lines 22-30
EmptyImpactMetrics ==
    [total_publications |-> 0, total_citations |-> Zero, avg_citations |-> Zero,
     h_index |-> 0, i10_index |-> 0, g_index |-> 0, citation_percentiles |-> <<>>]

\* lines 11-79; the batch is updated in place (lines 34 and 36)
calculate_impact_metrics(d) ==
    IF empty(d) THEN [df |-> d, ret |-> Ok(EmptyImpactMetrics)]
    ELSE
    LET d1 == IF "citations" \notin d.cols
              THEN SetCol(d, "citations", [i \in 1..Len(d.rows) |-> Num(0)])
              ELSE SetCol(d, "citations", coerce_citations(Col(d, "citations")))
        values == Values(Col(d1, "citations"))
        total_publications == Len(d1.rows)
        total_citations == SumFracs(values)
        counts == citation_counts(values)
    IN  [df  |-> d1,
         ret |-> Ok([total_publications |-> total_publications,
                     total_citations |-> total_citations,
                     avg_citations |-> IF total_publications > 0
                                       THEN Frac(total_citations.num,
                                                 total_citations.den * total_publications)
                                       ELSE Zero,
                     h_index |-> h_index(counts),
                     i10_index |-> i10_index(counts),
                     g_index |-> g_index(counts),
                     citation_percentiles |-> citation_percentiles(values)])]

----------------------------------------------------------------------------
(* calculate_metrics (src/utils/data_processing.py) *)

\* The values a column of a batch holds.  A batch is built from records, in
\* which a missing value is None.  A column whose cells are numbers or
\* missing, with a number among them, is float64 and holds NaN where the
\* value is missing; a column with text, or without any number, is object
\* and holds None there.
tolist(col) ==
    IF HasStr(col) \/ NumsOf(col) = <<>>
    THEN [i \in DOMAIN col |-> IF col[i].t = "nan" THEN None ELSE col[i]]
    ELSE col

\* lines 109-114: the loop stops at the first rank whose count is below it.
\* A NaN compares false and stops the loop; comparing None with the rank
\* raises TypeError (line 111).
RECURSIVE h_loop_strict(_, _, _)
h_loop_strict(sorted_cites, i, h) ==
    IF i > Len(sorted_cites) THEN Ok(h)
    ELSE IF sorted_cites[i].t = "none" THEN Raised("TypeError")
    ELSE IF sorted_cites[i].t = "num" /\ sorted_cites[i].n > i * sorted_cites[i].d
         THEN h_loop_strict(sorted_cites, i + 1, i)
         ELSE Ok(h)
RECURSIVE h_loop(_, _, _)
h_loop(sorted_cites, i, h) ==
    IF i > Len(sorted_cites) THEN Ok(h)
    ELSE IF sorted_cites[i].t = "none" THEN Raised("TypeError")
    ELSE IF sorted_cites[i].t = "num" /\ sorted_cites[i].n >= i * sorted_cites[i].d
         THEN h_loop(sorted_cites, i + 1, i)
         ELSE Ok(h)

\* lines 96-101
EmptyMetrics ==
    [total_publications |-> 0, total_citations |-> Zero, avg_citations |-> Zero,
     h_index |-> 0]

\* lines 103-121.  The column is read as it is: a missing column raises
\* KeyError and a string among the counts raises TypeError (lines 104-105).
\* A missing value is skipped by sum() and sorted last; in a column without
\* any number the sum is 0 and the loop of line 110 meets None.
metrics_of_records(d) ==
    IF "citations" \notin d.cols THEN Raised("KeyError")
    ELSE
    LET col == tolist(Col(d, "citations"))
        nums == NumsOf(col)
        missing == SelectSeq(col, LAMBDA v : v.t \in {"nan", "none"})
        total_pubs == Len(d.rows)
        total_cites == SumFracs(Values(nums))
        sorted_vals == SortDesc(Values(nums))
        sorted_cites == [i \in 1..Len(sorted_vals) |-> Flt(sorted_vals[i])] \o missing
        h == h_loop(sorted_cites, 1, 0)
    IN  IF HasStr(col) THEN Raised("TypeError")
        ELSE IF h.exc # "none" THEN h
        ELSE Ok([total_publications |-> total_pubs,
                 total_citations |-> total_cites,
                 avg_citations |-> IF total_pubs > 0
                                   THEN Frac(total_cites.num, total_cites.den * total_pubs)
                                   ELSE Zero,
                 h_index |-> h.val])

\* lines 85-121; the variant lacks the guard of line 95
calculate_metrics_unguarded(d) == metrics_of_records(d)
calculate_metrics(d) ==
    IF empty(d) THEN Ok(EmptyMetrics) ELSE metrics_of_records(d)

----------------------------------------------------------------------------
(* The normalizer: process_openalex_data (src/utils/data_processing.py) *)

(* A reply of the data source is None (a failed request), a page of works   *)
(* (a dict with a 'results' list) or one work (the dict of a single-record  *)
(* lookup, which has no 'results' key).  A work is a dict; of its keys the  *)
(* model keeps title, cited_by_count, publication_date and doi, and of the  *)
(* columns of the batch those made from them and abstract.  A value is a    *)
(* cell, NaN standing for JSON null, or Absent when the dict lacks the key. *)
Absent == [t |-> "absent", n |-> 0, d |-> 1, s |-> <<>>]

NoReply == [kind |-> "none", results |-> <<>>]
Page(works) == [kind |-> "page", results |-> works]
Work(item) == [kind |-> "work", results |-> <<item>>]

\* str.replace(old, new) for a non-empty old
RECURSIVE replace(_, _, _)
replace(s, old, new) ==
    IF Len(s) < Len(old) THEN s
    ELSE IF SubSeq(s, 1, Len(old)) = old
         THEN new \o replace(SubSeq(s, Len(old) + 1, Len(s)), old, new)
         ELSE <<Head(s)>> \o replace(Tail(s), old, new)

\* dict.get(key, default)
get(item, key, default) == IF item[key] = Absent THEN default ELSE item[key]

Untitled == <<"U", "n", "t", "i", "t", "l", "e", "d">>

DoiPrefix ==
    <<"h", "t", "t", "p", "s", ":", "/", "/", "d", "o", "i", ".", "o", "r", "g", "/">>

\* lines 28-32: the placeholder is given to a null title only; a missing key
\* reads as the empty text, and every text is trimmed
title_of(item) ==
    LET title == get(item, "title", Str(<<>>))
    IN  IF title # NaN THEN Str(strip(replace(title.s, <<"\n">>, <<" ">>)))
        ELSE Str(Untitled)

\* "if x": None, the empty text and the number 0 are false
truthy(x) == ~(x.t = "nan" \/ x = Str(<<>>) \/ (x.t = "num" /\ x.n = 0))

\* line 75: a doi that is missing, null, empty or 0 reads as the empty text
doi_of(item) ==
    LET doi == get(item, "doi", Str(<<>>))
    IN  IF ~truthy(doi) THEN Str(<<>>)
        ELSE Str(replace(doi.s, DoiPrefix, <<>>))

\* lines 26-79: the try / except leaves out a work for which a line of the
\* body raises.  Of the keys the model keeps, a title that is neither text
\* nor null raises AttributeError at line 30 (no replace), and so does, at
\* line 75, a doi that is true and no text; the other two are stored as
\* they are.
processable(item) ==
    LET title == get(item, "title", Str(<<>>))
        doi == get(item, "doi", Str(<<>>))
    IN  /\ title.t \in {"str", "nan"}
        /\ (truthy(doi) => doi.t = "str")

\* lines 53-76
processed_item(item) ==
    [title |-> title_of(item),
     publication_date |-> get(item, "publication_date", Str(<<>>)),
     citations |-> get(item, "cited_by_count", Num(0)),
     doi |-> doi_of(item),
     abstract |-> Str(<<>>)]

ProcessedColumns == {"title", "publication_date", "citations", "doi", "abstract"}

\* lines 8-82
process_openalex_data(data) ==
    IF data.kind # "page" THEN EmptyFrame
    ELSE LET works == SelectSeq(data.results, processable)
         IN  IF works = <<>> THEN EmptyFrame
             ELSE [cols |-> ProcessedColumns,
                   rows |-> [i \in DOMAIN works |-> processed_item(works[i])]]

----------------------------------------------------------------------------
(* Temporal aggregator: analyze_publications_by_time *)

IsLeap(y) == (y % 4 = 0 /\ y % 100 # 0) \/ y % 400 = 0

DaysIn(y, m) ==
    IF m = 2 THEN (IF IsLeap(y) THEN 29 ELSE 28)
    ELSE IF m \in {4, 6, 9, 11} THEN 30 ELSE 31

\* a text YYYY-MM-DD naming a day of the calendar inside the range of a
\* Timestamp (1677-09-22 .. 2262-04-11) is that day; with errors='coerce'
\* the empty text and text that is no date are NaT.  The batches checked hold
\* dates in this one format only.
parse_date(s) ==
    IF /\ Len(s) = 10
       /\ s[5] = "-" /\ s[8] = "-"
       /\ \A i \in {1, 2, 3, 4, 6, 7, 9, 10} : IsDigit(s[i])
    THEN LET y  == ParseInt(SubSeq(s, 1, 4))
             m  == ParseInt(SubSeq(s, 6, 7))
             dd == ParseInt(SubSeq(s, 9, 10))
             n  == y * 10000 + m * 100 + dd
         IN  IF m \in 1..12 /\ dd \in 1..DaysIn(y, m) /\ n >= 16770922 /\ n <= 22620411
             THEN Ts(n) ELSE NaN
    ELSE NaN

\* line 99: pd.to_datetime(x, errors='coerce') of one cell; a number is a
\* count of nanoseconds from 1970-01-01 (the numbers here are small)
to_datetime_text_only(v) ==
    IF v.t = "str" THEN parse_date(v.s)
    ELSE IF v.t = "num" THEN (IF v.n >= 0 THEN Ts(19700101) ELSE Ts(19691231))
    ELSE NaN
to_datetime(v) ==
    IF v.t = "ts" THEN v
    ELSE IF v.t = "str" THEN parse_date(v.s)
    ELSE IF v.t = "num" THEN (IF v.n >= 0 THEN Ts(19700101) ELSE Ts(19691231))
    ELSE NaN

\* line 102: .dt.year; the year of NaT is NaN
dt_year_filled(v) == IF v.t = "ts" THEN Num(v.n \div 10000) ELSE Num(0)
dt_year(v) == IF v.t = "ts" THEN Num(v.n \div 10000) ELSE NaN

RECURSIVE SetToSortedSeq(_)
SetToSortedSeq(S) ==
    IF S = {} THEN <<>>
    ELSE LET m == CHOOSE x \in S : \A y \in S : x <= y
         IN  <<m>> \o SetToSortedSeq(S \ {m})

\* the keys of df.groupby('year'): the years present, ascending; a NaN year
\* is no key, so its rows are in no group
year_keys(d) ==
    SetToSortedSeq({d.rows[i]["year"].n : i \in {j \in 1..Len(d.rows) : d.rows[j]["year"].t = "num"}})

\* the rows of the group of year y
year_group(d, y) == SelectSeq(d.rows, LAMBDA r : r["year"].t = "num" /\ r["year"].n = y)

ColOf(rows, c) == [i \in 1..Len(rows) |-> rows[i][c]]

\* sum, mean and median of a group's cells; NaN cells are skipped
agg_sum(cells) == Flt(SumFracs(Values(NumsOf(cells))))

agg_mean(cells) ==
    LET nums == NumsOf(cells)
        total == SumFracs(Values(nums))
    IN  IF nums = <<>> THEN NaN ELSE Flt(Frac(total.num, total.den * Len(nums)))

agg_median(cells) ==
    LET a == SortAsc(Values(NumsOf(cells)))
        n == Len(a)
    IN  IF n = 0 THEN NaN
        ELSE IF n % 2 = 1 THEN Flt(a[(n + 1) \div 2])
        ELSE LET s == FracAdd(a[n \div 2], a[n \div 2 + 1])
             IN  Flt(Frac(s.num, 2 * s.den))

\* line 105
publications_by_year(d) ==
    LET keys == year_keys(d)
    IN  [k \in DOMAIN keys |-> [year |-> keys[k], count |-> Len(year_group(d, keys[k]))]]

\* line 108
citations_by_year(d) ==
    LET keys == year_keys(d)
    IN  [k \in DOMAIN keys |->
            LET cells == ColOf(year_group(d, keys[k]), "citations")
            IN  [year |-> keys[k], sum |-> agg_sum(cells), mean |-> agg_mean(cells),
                 median |-> agg_median(cells)]]

\* line 114: current_year - df['year']
years_since_inclusive(current_year, year) ==
    IF year.t = "num" THEN Num(current_year - year.n + 1) ELSE NaN
years_since(current_year, year) ==
    IF year.t = "num" THEN Num(current_year - year.n) ELSE NaN

\* .clip(lower=1)
clip_lower_none(v) == v
clip_lower(v) == IF v.t = "num" /\ v.n < 1 THEN Num(1) ELSE v

\* line 115: df['citations'] / df['years_since_publication'].clip(lower=1)
velocity(citations, years_since_publication) ==
    LET age == clip_lower(years_since_publication)
    IN  IF citations.t = "num" /\ age.t = "num"
        THEN Flt(Frac(citations.n, citations.d * age.n)) ELSE NaN

\* line 117
citation_velocity(d) ==
    LET keys == year_keys(d)
    IN  [k \in DOMAIN keys |->
            [year |-> keys[k],
             citation_velocity |-> agg_mean(ColOf(year_group(d, keys[k]), "citation_velocity"))]]

\* lines 92-96
EmptyTimeAnalysis ==
    [publications_by_year |-> <<>>, citations_by_year |-> <<>>, citation_velocity |-> <<>>]

\* lines 81-123.  The batch is updated in place: publication_date is parsed
\* (line 99) and the columns year, years_since_publication and
\* citation_velocity are added (lines 102, 114, 115).  A batch without a
\* citations column raises KeyError at line 108; text among the citations of
\* a dated record raises TypeError there, in the mean of its year.  Text on
\* an undated record is in no group, and at line 115 the division leaves out
\* the positions where either side is missing: the velocity there is NaN and
\* the tables are returned.  The columns written before an exception stay.
analyze_publications_by_time(d, current_year) ==
    IF empty(d) \/ "publication_date" \notin d.cols
    THEN [df |-> d, ret |-> Ok(EmptyTimeAnalysis)]
    ELSE
    LET N  == Len(d.rows)
        d1 == SetCol(d, "publication_date",
                     [i \in 1..N |-> to_datetime(d.rows[i]["publication_date"])])
        d2 == SetCol(d1, "year", [i \in 1..N |-> dt_year(d1.rows[i]["publication_date"])])
        d3 == SetCol(d2, "years_since_publication",
                     [i \in 1..N |-> years_since(current_year, d2.rows[i]["year"])])
        d4 == SetCol(d3, "citation_velocity",
                     [i \in 1..N |-> velocity(d3.rows[i]["citations"],
                                              d3.rows[i]["years_since_publication"])])
    IN  IF "citations" \notin d.cols THEN [df |-> d2, ret |-> Raised("KeyError")]
        ELSE IF \E k \in DOMAIN year_keys(d2) :
                    HasStr(ColOf(year_group(d2, year_keys(d2)[k]), "citations"))
             THEN [df |-> d2, ret |-> Raised("TypeError")]
        ELSE [df  |-> d4,
              ret |-> Ok([publications_by_year |-> publications_by_year(d2),
                          citations_by_year |-> citations_by_year(d2),
                          citation_velocity |-> citation_velocity(d4)])]

----------------------------------------------------------------------------
(* Author analyzer: analyze_authors *)

\* lines 146-147, 193 (and 246-247): the trimmed pieces of a comma-delimited
\* text, in order and with repeats; a missing or empty text has none
split_names(v) ==
    IF notna(v) /\ v # Str(<<>>)
    THEN LET parts == split(v.s, ",")
         IN  [i \in DOMAIN parts |-> strip(parts[i])]
    ELSE <<>>

\* lines 149-156 (and 249-256): one entry for every non-empty name in column
\* c of every record
occurrences(d, c) ==
    Flatten([i \in 1..Len(d.rows) |->
                LET names == SelectSeq(split_names(d.rows[i][c]), LAMBDA a : a # <<>>)
                IN  [k \in DOMAIN names |-> [name |-> names[k], row |-> d.rows[i]]]])

\* the record of each occurrence of the name
papers_of(d, c, name) ==
    LET occ == SelectSeq(occurrences(d, c), LAMBDA o : o.name = name)
    IN  [k \in DOMAIN occ |-> occ[k].row]

\* the names in the order of their first occurrence
names_of(d, c) ==
    LET occ == occurrences(d, c)
    IN  Distinct([k \in DOMAIN occ |-> occ[k].name])

paper_authors(r) == split_names(r["authors"])

\* author_papers[author]
author_papers(d, author) == papers_of(d, "authors", author)

\* the keys of author_papers
author_keys(d) == names_of(d, "authors")

\* line 162: authors with fewer than 2 papers are skipped
qualifies_more_than_two(papers) == Len(papers) > 2
qualifies(papers) == Len(papers) >= 2

\* lines 161-182, for a batch with a citations column.  The papers of an
\* author hold the values of the batch's column.  Text among them raises
\* TypeError (lines 166-167).  Papers whose values are all None make an
\* object column again, and comparing it with the ranks raises TypeError
\* (line 172); a None beside a number becomes NaN in paper_df, and a NaN
\* compares false.
author_metrics(d) ==
    LET d0 == SetCol(d, "citations", tolist(Col(d, "citations")))
        keys == SelectSeq(author_keys(d), LAMBDA a : qualifies(author_papers(d, a)))
        citations_of(a) == ColOf(author_papers(d0, a), "citations")
    IN  IF \E k \in DOMAIN keys :
               \/ HasStr(citations_of(keys[k]))
               \/ \A i \in DOMAIN citations_of(keys[k]) : citations_of(keys[k])[i].t = "none"
        THEN Raised("TypeError")
        ELSE Ok([k \in DOMAIN keys |->
                    LET papers == author_papers(d0, keys[k])
                        cells == ColOf(papers, "citations")
                    IN  [author |-> keys[k],
                         paper_count |-> Len(papers),
                         citations |-> agg_sum(cells),
                         avg_citations |-> agg_mean(cells),
                         h_index |-> h_index(SortDesc(Values(NumsOf(cells))))]])

\* line 186
significant_authors(author_impact) ==
    LET rows == SelectSeq(author_impact, LAMBDA m : m.paper_count >= 2)
    IN  [k \in DOMAIN rows |-> rows[k].author]

\* line 190: author_indices.get(author)
author_index(significant, author) ==
    CHOOSE i \in DOMAIN significant : significant[i] = author

\* lines 206-207
increment_one_way(m, idx1, idx2) == [m EXCEPT ![idx1][idx2] = @ + 1]
increment(m, idx1, idx2) ==
    LET m1 == [m EXCEPT ![idx1][idx2] = @ + 1]
    IN  [m1 EXCEPT ![idx2][idx1] = @ + 1]

\* lines 203-207: for author2 in paper_authors[i+1:], from position j
RECURSIVE pair_inner(_, _, _, _, _)
pair_inner(m, significant, names, i, j) ==
    IF j > Len(names) THEN m
    ELSE pair_inner(increment(m, author_index(significant, names[i]),
                                 author_index(significant, names[j])),
                    significant, names, i, j + 1)

\* lines 200-207: for i, author1 in enumerate(paper_authors), from position i
RECURSIVE pair_outer(_, _, _, _)
pair_outer(m, significant, names, i) ==
    IF i > Len(names) THEN m
    ELSE pair_outer(pair_inner(m, significant, names, i, i + 1), significant, names, i + 1)

\* lines 192-207: for _, row in df.iterrows(), from row k
RECURSIVE collaborations(_, _, _, _)
collaborations(m, significant, rows, k) ==
    IF k > Len(rows) THEN m
    ELSE LET names == SelectSeq(paper_authors(rows[k]),
                                LAMBDA a : \E i \in DOMAIN significant : significant[i] = a)
         IN  collaborations(pair_outer(m, significant, names, 1), significant, rows, k + 1)

\* line 189: np.zeros((K, K))
zeros(K) == [i \in 1..K |-> [j \in 1..K |-> 0]]

\* a table without rows, and the matrix over no authors
EmptyMatrix == [index |-> <<>>, cells |-> <<>>]

\* lines 136-139
EmptyAuthorAnalysis == [author_impact |-> <<>>, author_collaborations |-> EmptyMatrix]

\* lines 125-218.  An author cell that is neither text nor missing has no
\* split (AttributeError, line 147).  With a significant author, a batch
\* without citations raises KeyError (line 166) and the metrics of the
\* authors may raise TypeError (lines 166-172).  With no significant author,
\* author_impact is a frame without columns and line 186 raises KeyError.
analyze_authors(d) ==
    IF empty(d) \/ "authors" \notin d.cols THEN Ok(EmptyAuthorAnalysis)
    ELSE IF \E i \in 1..Len(d.rows) : d.rows[i]["authors"].t \in {"num", "ts"}
    THEN Raised("AttributeError")
    ELSE
    LET keys == SelectSeq(author_keys(d), LAMBDA a : qualifies(author_papers(d, a)))
    IN  IF keys = <<>> THEN Raised("KeyError")
        ELSE IF "citations" \notin d.cols THEN Raised("KeyError")
        ELSE IF author_metrics(d).exc # "none" THEN author_metrics(d)
        ELSE
        LET author_impact == author_metrics(d).val
            significant == significant_authors(author_impact)
        IN  Ok([author_impact |-> author_impact,
                author_collaborations |->
                    [index |-> significant,
                     cells |-> collaborations(zeros(Len(significant)), significant, d.rows, 1)]])

----------------------------------------------------------------------------
(* Text analysis: sklearn's CountVectorizer *)

\* \w
IsWordChar(c) ==
    \/ IsDigit(c)
    \/ c = "_"
    \/ \E i \in DOMAIN Lowers : Lowers[i] = c \/ Uppers[i] = c

\* the maximal runs of word characters of s, cur being the run in progress
RECURSIVE word_runs(_, _)
word_runs(s, cur) ==
    LET done == IF cur = <<>> THEN <<>> ELSE <<cur>>
    IN  IF s = <<>> THEN done
        ELSE IF IsWordChar(Head(s)) THEN word_runs(Tail(s), Append(cur, Head(s)))
        ELSE done \o word_runs(Tail(s), <<>>)

\* token_pattern (?u)\b\w\w+\b: the runs of two or more word characters
tokenize(s) == SelectSeq(word_runs(s, <<>>), LAMBDA w : Len(w) >= 2)

\* stop_words='english': the words of sklearn's list that occur in the
\* texts checked
StopWords ==
    {<<"t", "h", "e">>, <<"o", "f">>, <<"a", "n", "d">>, <<"i", "n">>}

\* the analyzer with ngram_range=(1, 1): lower-case, tokenize, drop stop words
analyze_words(doc) == SelectSeq(tokenize(lowercase(doc)), LAMBDA w : w \notin StopWords)

\* the analyzer with ngram_range=(1, 2): the words, then the pairs of
\* neighbouring words joined by a space
analyze_ngrams(doc) ==
    LET words == analyze_words(doc)
    IN  words \o [i \in 1..(Len(words) - 1) |-> words[i] \o <<" ">> \o words[i + 1]]

CountIn(terms, term) == Cardinality({i \in DOMAIN terms : terms[i] = term})

\* the ASCII characters in the order of their code points (all but the
\* grave accent, which no string here can hold)
CharOrder ==
    <<"\t", "\n", "", "\f", "\r", "", "", "", "",
      " ", "!", "\"", "#", "$", "%", "&", "'", "(", ")", "*", "+", ",", "-", ".", "/">>
    \o Digits \o <<":", ";", "<", "=", ">", "?", "@">>
    \o Uppers \o <<"[", "\\", "]", "^", "_">>
    \o Lowers \o <<"{", "|", "}", "~">>

CharRank(c) == CHOOSE i \in DOMAIN CharOrder : CharOrder[i] = c

\* x < y for text, as Python compares it
RECURSIVE TextLess(_, _)
TextLess(x, y) ==
    IF y = <<>> THEN FALSE
    ELSE IF x = <<>> THEN TRUE
    ELSE IF Head(x) = Head(y) THEN TextLess(Tail(x), Tail(y))
    ELSE CharRank(Head(x)) < CharRank(Head(y))

\* get_feature_names_out(): the vocabulary in sorted order
RECURSIVE sorted_terms(_)
sorted_terms(S) ==
    IF S = {} THEN <<>>
    ELSE LET m == CHOOSE x \in S : \A y \in S \ {x} : TextLess(x, y)
         IN  <<m>> \o sorted_terms(S \ {m})

\* rows ordered by descending frequency, rows of equal frequency staying in
\* their order
RECURSIVE sort_by_frequency(_)
sort_by_frequency(rows) ==
    IF rows = <<>> THEN <<>>
    ELSE LET i == CHOOSE k \in DOMAIN rows :
                    /\ \A j \in DOMAIN rows : rows[j].frequency <= rows[k].frequency
                    /\ \A j \in 1..(k - 1) : rows[j].frequency < rows[k].frequency
         IN  <<rows[i]>> \o sort_by_frequency(RemoveAt(rows, i))

\* str(n) for n >= 0
RECURSIVE FormatInt(_)
FormatInt(n) ==
    IF n < 10 THEN <<Digits[n + 1]>>
    ELSE Append(FormatInt(n \div 10), Digits[(n % 10) + 1])

Pad2(n) == IF n < 10 THEN <<"0">> \o FormatInt(n) ELSE FormatInt(n)

\* str(x) of a cell: text as it is, an integer in digits, a Timestamp as
\* YYYY-MM-DD 00:00:00
str(v) ==
    IF v.t = "str" THEN v.s
    ELSE IF v.t = "ts"
         THEN FormatInt(v.n \div 10000) \o <<"-">> \o Pad2((v.n \div 100) % 100) \o <<"-">>
              \o Pad2(v.n % 100) \o <<" ", "0", "0", ":", "0", "0", ":", "0", "0">>
    ELSE FormatInt(v.n)

\* df[c].isna().all()
all_na(d, c) == \A i \in 1..Len(d.rows) : d.rows[i][c].t = "nan"

----------------------------------------------------------------------------
(* Keyword analyzer: analyze_keywords *)

\* keyword_papers[keyword]
keyword_papers(d, keyword) == papers_of(d, "keywords", keyword)

\* lines 259-260: pd.Series(all_keywords).value_counts(): the keywords by
\* descending count, keywords of equal count in the order of first occurrence
keyword_frequency(d) ==
    LET keys == names_of(d, "keywords")
    IN  sort_by_frequency([k \in DOMAIN keys |->
            [keyword |-> keys[k], frequency |-> Len(keyword_papers(d, keys[k]))]])

\* line 266: keywords with fewer than 3 papers are skipped
impact_keywords(d) ==
    SelectSeq(names_of(d, "keywords"), LAMBDA kw : Len(keyword_papers(d, kw)) >= 3)

\* lines 265-281
keyword_impact(d) ==
    LET keys == impact_keywords(d)
    IN  [k \in DOMAIN keys |->
            LET cells == ColOf(keyword_papers(d, keys[k]), "citations")
            IN  [keyword |-> keys[k],
                 paper_count |-> Len(cells),
                 total_citations |-> agg_sum(cells),
                 avg_citations |-> agg_mean(cells)]]

\* line 287: keyword_frequency.head(20)
top_keywords(frequency) ==
    LET top == SubSeq(frequency, 1, IF Len(frequency) < 20 THEN Len(frequency) ELSE 20)
    IN  [k \in DOMAIN top |-> top[k].keyword]

\* line 295: pd.to_datetime(x) without errors='coerce' raises on text that
\* is no date; the empty text is NaT
unparseable(v) == v.t = "str" /\ v.s # <<>> /\ parse_date(v.s).t = "nan"

\* lines 291-303: the per-year counts of one keyword's papers
trends_of(d, keyword) ==
    LET papers == keyword_papers(d, keyword)
        years == [i \in DOMAIN papers |-> dt_year(to_datetime(papers[i]["publication_date"]))]
        keys == SetToSortedSeq({years[i].n : i \in {j \in DOMAIN years : years[j].t = "num"}})
    IN  [k \in DOMAIN keys |->
            [keyword |-> keyword, year |-> keys[k],
             count |-> Cardinality({i \in DOMAIN years :
                                      years[i].t = "num" /\ years[i].n = keys[k]})]]

\* lines 284-305
keyword_trends(d) ==
    LET top == top_keywords(keyword_frequency(d))
    IN  IF "publication_date" \in d.cols
        THEN Flatten([k \in DOMAIN top |-> trends_of(d, top[k])])
        ELSE <<>>

\* lines 240-305: the explicit keywords.  A keyword cell that is neither
\* text nor missing has no split (AttributeError, line 247); with a keyword
\* of 3 or more papers, a batch without citations raises KeyError and text
\* among its citations TypeError (lines 270-271); a paper of a keyword whose
\* date is text that is no date raises ValueError (line 295).
explicit_keywords(d) ==
    IF \E i \in 1..Len(d.rows) : d.rows[i]["keywords"].t \in {"num", "ts"}
    THEN Raised("AttributeError")
    ELSE
    LET keys == impact_keywords(d)
        top == top_keywords(keyword_frequency(d))
    IN  IF keys # <<>> /\ "citations" \notin d.cols THEN Raised("KeyError")
        ELSE IF \E k \in DOMAIN keys : HasStr(ColOf(keyword_papers(d, keys[k]), "citations"))
             THEN Raised("TypeError")
        ELSE IF /\ "publication_date" \in d.cols
                /\ \E k \in DOMAIN top :
                      LET papers == keyword_papers(d, top[k])
                      IN  \E i \in DOMAIN papers : unparseable(papers[i]["publication_date"])
             THEN Raised("ValueError")
        ELSE Ok([keyword_frequency |-> keyword_frequency(d),
                 keyword_impact |-> keyword_impact(d),
                 keyword_trends |-> keyword_trends(d)])

\* lines 230-235, 329-331
EmptyKeywordAnalysis ==
    [keyword_frequency |-> <<>>, keyword_impact |-> <<>>, keyword_trends |-> <<>>]

\* lines 306-331: the terms of the titles.  CountVectorizer(stop_words=
\* 'english', min_df=3, ngram_range=(1, 2)).fit_transform raises ValueError
\* when the titles hold no term, when there are fewer than 3 titles and when
\* no term is in 3 titles; a title that is no text has no lower()
\* (AttributeError).  The terms come sorted and are then ordered by
\* descending frequency.
title_terms(d) ==
    IF "title" \in d.cols /\ ~all_na(d, "title")
    THEN IF \E i \in 1..Len(d.rows) : d.rows[i]["title"].t \in {"num", "ts"}
         THEN Raised("AttributeError")
         ELSE
         LET docs == [i \in 1..Len(d.rows) |->
                         analyze_ngrams(IF notna(d.rows[i]["title"])
                                        THEN d.rows[i]["title"].s ELSE <<>>)]
             vocabulary == UNION {Range(docs[i]) : i \in DOMAIN docs}
             kept == {t \in vocabulary :
                        Cardinality({i \in DOMAIN docs : CountIn(docs[i], t) > 0}) >= 3}
             terms == sorted_terms(kept)
         IN  IF vocabulary = {} \/ Len(docs) < 3 \/ kept = {} THEN Raised("ValueError")
             ELSE Ok([keyword_frequency |->
                          sort_by_frequency([k \in DOMAIN terms |->
                              [keyword |-> terms[k],
                               frequency |-> SumSeq([i \in DOMAIN docs |->
                                                        CountIn(docs[i], terms[k])])]]),
                      keyword_impact |-> <<>>,
                      keyword_trends |-> <<>>])
    ELSE Ok(EmptyKeywordAnalysis)

\* lines 220-337
analyze_keywords(d) ==
    IF empty(d) THEN Ok(EmptyKeywordAnalysis)
    ELSE IF "keywords" \in d.cols /\ ~all_na(d, "keywords") THEN explicit_keywords(d)
    ELSE title_terms(d)

----------------------------------------------------------------------------
(* Similarity ranker: find_similar_papers *)

\* lines 357-366
features(d) ==
    SelectSeq(<<"abstract", "title", "keywords">>, LAMBDA c : c \in d.cols /\ ~all_na(d, c))

\* ' '.join(parts)
RECURSIVE join(_)
join(parts) ==
    IF parts = <<>> THEN <<>>
    ELSE IF Len(parts) = 1 THEN parts[1]
    ELSE parts[1] \o <<" ">> \o join(Tail(parts))

\* lines 375-381: the text of one record
document(r, fs) ==
    LET present == SelectSeq(fs, LAMBDA c : notna(r[c]))
    IN  join([k \in DOMAIN present |-> str(r[present[k]])])

\* line 385: the term counts of every document over the shared vocabulary;
\* dot(i, j) is the inner product of the count vectors of documents i and j
dot(words, terms, i, j) ==
    SumSeq([k \in DOMAIN terms |-> CountIn(words[i], terms[k]) * CountIn(words[j], terms[k])])

\* line 388: the square of the cosine similarity of documents i and j, 0 for
\* a document without terms
cosine_squared(words, terms, i, j) ==
    LET ij == dot(words, terms, i, j)
    IN  IF ij = 0 THEN Zero
        ELSE Frac(ij * ij, dot(words, terms, i, i) * dot(words, terms, j, j))

\* np.argsort(row): the order of the positions by ascending similarity.
\* The sort is not stable: which of two equal similarities comes first
\* depends on the build of numpy, and is the same whenever that build sorts
\* the same values.  The builds modelled leave equal values in ascending or
\* in descending order of position.
TieOrders == {"ascending", "descending"}

argsort(sims, tie_order) ==
    {p \in Permutations(DOMAIN sims) :
        \A k \in 1..(Len(sims) - 1) :
            /\ FracLeq(sims[p[k]], sims[p[k + 1]])
            /\ sims[p[k]] = sims[p[k + 1]] =>
                  IF tie_order = "ascending" THEN p[k] < p[k + 1] ELSE p[k] > p[k + 1]}

\* line 391: [::-1][1:n+1] of one order: the positions from the second
\* largest on, at most n of them
similar_indices_keep_first(p, n) ==
    LET N == Cardinality(DOMAIN p)
        m == IF n < N THEN n ELSE N
    IN  [k \in 1..m |-> p[N + 1 - k]]
similar_indices_one_short(p, n) ==
    LET N == Cardinality(DOMAIN p)
        m == IF n - 1 < N - 1 THEN n - 1 ELSE N - 1
    IN  [k \in 1..m |-> p[N - k]]
similar_indices(p, n) ==
    LET N == Cardinality(DOMAIN p)
        m == IF n < N - 1 THEN n ELSE N - 1
    IN  [k \in 1..m |-> p[N - k]]

\* lines 391-393: the result for the order of the similarities; a result
\* row carries its position in the batch (0-based) and the record
ranked(d, n, sims, tie_order) ==
    {Ok(LET idx == similar_indices(p, n)
        IN  [k \in DOMAIN idx |-> [index |-> idx[k] - 1, row |-> d.rows[idx[k]]]]) :
     p \in argsort(sims, tie_order)}

\* lines 384-393, given the words of every document and the vocabulary
compare(d, target, n, words, terms, tie_order) ==
    IF terms = <<>> THEN {Raised("ValueError")}
    ELSE ranked(d, n, [i \in 1..Len(d.rows) |-> cosine_squared(words, terms, target, i)],
                tie_order)

\* lines 371-393, given the words of every document
vectorize(d, target, n, words, tie_order) ==
    compare(d, target, n, words, sorted_terms(UNION {Range(words[i]) : i \in DOMAIN words}),
            tie_order)

\* lines 339-393: the result of the call, as a set of one member.
\* target_paper_index is a position, negative
\* from the end; outside the batch, df.iloc raises IndexError.  Documents
\* without any term raise ValueError (empty vocabulary, line 385).
find_similar_papers(d, target_paper_index, n, tie_order) ==
    IF empty(d) \/ Len(d.rows) <= 1 THEN {Ok(<<>>)}
    ELSE
    LET N == Len(d.rows)
        target == IF target_paper_index < 0 THEN N + target_paper_index + 1
                  ELSE target_paper_index + 1
        fs == features(d)
    IN  IF target \notin 1..N THEN {Raised("IndexError")}
        ELSE IF fs = <<>> THEN {Ok(<<>>)}
        ELSE vectorize(d, target, n, [i \in 1..N |-> analyze_words(document(d.rows[i], fs))],
                       tie_order)

----------------------------------------------------------------------------
(* Publications timeline of the results page: impactsparkpro.py, tab1 *)

\* line 456: pct_change() * 100 of a count after the count before it, which
\* is a group size and so at least 1; the first count has none before it
growth_rate_zero_first(counts, k) ==
    IF k = 1 THEN Num(0)
    ELSE Flt(Frac((counts[k] - counts[k - 1]) * 100, counts[k - 1]))
growth_rate(counts, k) ==
    IF k = 1 THEN NaN
    ELSE Flt(Frac((counts[k] - counts[k - 1]) * 100, counts[k - 1]))

\* lines 454-456: the per-year counts in ascending year order, their running
\* sum and their growth
pub_by_year(years) ==
    LET keys == SetToSortedSeq({years[i].n : i \in {j \in DOMAIN years : years[j].t = "num"}})
        counts == [k \in DOMAIN keys |->
                      Cardinality({i \in DOMAIN years : years[i] = Num(keys[k])})]
    IN  [k \in DOMAIN keys |->
            [year |-> keys[k],
             count |-> counts[k],
             cumulative |-> SumSeq(SubSeq(counts, 1, k)),
             growth_rate |-> growth_rate(counts, k)]]

\* lines 485-487: the rows of the growth chart, drawn for more than 2 years
growth_data(by_year) ==
    IF Len(by_year) > 2 THEN SelectSeq(by_year, LAMBDA row : notna(row.growth_rate))
    ELSE <<>>

\* lines 452-492.  pd.to_datetime of line 453 is called without
\* errors='coerce': text that is no date raises ValueError, the empty text
\* and a missing value are NaT.
publications_timeline(d) ==
    IF "publication_date" \notin d.cols THEN Raised("KeyError")
    ELSE IF \E i \in 1..Len(d.rows) : unparseable(d.rows[i]["publication_date"])
         THEN Raised("ValueError")
    ELSE LET by_year == pub_by_year([i \in 1..Len(d.rows) |->
                                         dt_year(to_datetime(d.rows[i]["publication_date"]))])
         IN  Ok([pub_by_year |-> by_year, growth_data |-> growth_data(by_year)])

----------------------------------------------------------------------------
(* The results page: search, display, sort and enrichment                  *)
(* (src/impactsparkpro.py, src/utils/web_scraper.py)                       *)

\* lines 205-209: the records within the citation range, when the range is
\* not the whole slider.  The replies checked hold integer counts.
citation_filter(d, min_citations, max_citations) ==
    IF min_citations > 0 \/ max_citations < 10000
    THEN [cols |-> d.cols,
          rows |-> SelectSeq(d.rows, LAMBDA r :
                       /\ r["citations"].t = "num"
                       /\ r["citations"].n >= min_citations * r["citations"].d
                       /\ r["citations"].n <= max_citations * r["citations"].d)]
    ELSE d

\* the search of lines 171-219 if a search without results left
\* search_performed as it was
search_logic_flag_kept(s, reply, min_citations, max_citations) ==
    LET processed_results == process_openalex_data(reply)
        filtered == IF empty(processed_results) THEN processed_results
                    ELSE citation_filter(processed_results, min_citations, max_citations)
        metrics == calculate_metrics(filtered)
        s1 == [s EXCEPT !.search_results = <<filtered>>]
        s2 == [s1 EXCEPT !.search_performed = TRUE]
    IN  [results |-> filtered,
         raised |-> ~empty(filtered) /\ metrics.exc # "none",
         writes |-> IF empty(filtered) THEN <<s>>
                    ELSE IF metrics.exc # "none" THEN <<s1, s2>>
                    ELSE <<s1, s2, [s2 EXCEPT !.metrics = <<metrics.val>>]>>]

\* lines 171-219: the search.  A DOI search hands the reply of
\* get_work_by_doi to the normalizer, a topic search that of search_works.
\* writes is the session after each write of the search, in the order of
\* the writes: lines 211, 212 and 213 for a batch with records, line 216 or
\* 219 for one without.  There is no try around the search: if
\* calculate_metrics raises, the run ends there with the writes of lines
\* 211 and 212 done.
search_logic(s, reply, min_citations, max_citations) ==
    LET processed_results == process_openalex_data(reply)
        filtered == IF empty(processed_results) THEN processed_results
                    ELSE citation_filter(processed_results, min_citations, max_citations)
        metrics == calculate_metrics(filtered)
        s1 == [s EXCEPT !.search_results = <<filtered>>]
        s2 == [s1 EXCEPT !.search_performed = TRUE]
    IN  [results |-> filtered,
         raised |-> ~empty(filtered) /\ metrics.exc # "none",
         writes |-> IF empty(filtered) THEN <<[s EXCEPT !.search_performed = FALSE]>>
                    ELSE IF metrics.exc # "none" THEN <<s1, s2>>
                    ELSE <<s1, s2, [s2 EXCEPT !.metrics = <<metrics.val>>]>>]

\* str(x).startswith('http')
starts_with_http(x) == Len(x) >= 4 /\ SubSeq(x, 1, 4) = <<"h", "t", "t", "p">>

\* lines 244-246: the link of a doi; a doi that is false (empty, None, 0)
\* stays as it is
doi_url(x) ==
    IF truthy(x) /\ ~starts_with_http(str(x)) THEN Str(DoiPrefix \o str(x)) ELSE x

\* a <= b for two numbers, two timestamps or two texts
CellLeq(a, b) ==
    IF a.t = "num" THEN a.n * b.d <= b.n * a.d
    ELSE IF a.t = "ts" THEN a.n <= b.n
    ELSE a.s = b.s \/ TextLess(a.s, b.s)

\* line 289: sort_values(by, ascending): the rows by their key, rows of
\* equal keys in the order the build's sort leaves them and rows without a
\* key (None, NaN, NaT) last, in the order they had.  The keys present are
\* of one kind: numbers, timestamps or text.
sort_values(d, by, ascending, tie_order) ==
    LET key == [i \in 1..Len(d.rows) |-> d.rows[i][by]]
        p == CHOOSE q \in Permutations(1..Len(d.rows)) :
                 \A k \in 1..(Len(d.rows) - 1) :
                     IF key[q[k + 1]].t = "nan"
                     THEN key[q[k]].t = "nan" => q[k] < q[k + 1]
                     ELSE /\ key[q[k]].t # "nan"
                          /\ IF key[q[k]] = key[q[k + 1]]
                             THEN IF tie_order = "ascending" THEN q[k] < q[k + 1]
                                  ELSE q[k] > q[k + 1]
                             ELSE IF ascending THEN CellLeq(key[q[k]], key[q[k + 1]])
                                  ELSE CellLeq(key[q[k + 1]], key[q[k]])
    IN  [cols |-> d.cols, rows |-> [k \in 1..Len(d.rows) |-> d.rows[p[k]]]]

\* the columns offered for sorting (line 283), of those the model keeps
SortOptions == {"citations", "publication_date", "title"}

\* web_scraper.py lines 67-117: enrich_publication_data.  contents[i] is
\* the text get_website_text_content returns for record i, empty when the
\* page gives none; it is fetched only for one of the first max_items
\* records with a doi and without an abstract.  The batches of the session
\* come from the normalizer: they have an abstract column and their dois
\* are text.
enrich_publication_data(d, max_items, contents) ==
    IF "doi" \notin d.cols THEN d
    ELSE
    LET e1 == IF "abstract" \notin d.cols
              THEN SetCol(d, "abstract", [i \in 1..Len(d.rows) |-> Str(<<>>)])
              ELSE d
        e2 == SetCol(e1, "full_text", [i \in 1..Len(d.rows) |-> Str(<<>>)])
        process_items == IF max_items < Len(d.rows) THEN max_items ELSE Len(d.rows)
        fetched(i) ==
            /\ i <= process_items
            /\ truthy(d.rows[i]["doi"])
            /\ ~truthy(d.rows[i]["abstract"])
            /\ contents[i] # <<>>
    IN  [cols |-> e2.cols,
         rows |-> [i \in 1..Len(d.rows) |->
                     IF fetched(i)
                     THEN [e2.rows[i] EXCEPT
                              !["abstract"] =
                                  Str(SubSeq(contents[i], 1,
                                             IF Len(contents[i]) > 500 THEN 500
                                             ELSE Len(contents[i]))),
                              !["full_text"] = Str(contents[i])]
                     ELSE e2.rows[i]]]

\* line 222: the results are drawn, with the sort widgets and the enrich
\* button
drawn(s) == s.search_performed /\ s.search_results # <<>>

\* impactsparkpro.py lines 222-308: the results are drawn when a search was
\* performed.  The session after each write of the block, in the order of
\* the writes: the link column is added to the stored batch (line 244), the
\* batch is stored sorted by the values of the sort widgets (line 289) and,
\* when the enrich button was pressed, stored enriched (line 307).
display(s, tie_order, enrich_button, contents) ==
    IF ~drawn(s) THEN <<>>
    ELSE LET d0 == s.search_results[1]
             d1 == IF "doi" \in d0.cols
                   THEN SetCol(d0, "doi_url", [i \in 1..Len(d0.rows) |-> doi_url(d0.rows[i]["doi"])])
                   ELSE d0
             sort_options == SortOptions \cap d1.cols
             d2 == IF s.sort_by \in sort_options
                   THEN sort_values(d1, s.sort_by, s.ascending, tie_order)
                   ELSE d1
             max_items == IF Len(d2.rows) > 10 THEN 10 ELSE Len(d2.rows)
             stored(d) == [s EXCEPT !.search_results = <<d>>]
         IN  (IF "doi" \in d0.cols THEN <<stored(d1)>> ELSE <<>>)
             \o (IF sort_options # {} THEN <<stored(d2)>> ELSE <<>>)
             \o (IF enrich_button
                 THEN <<stored(enrich_publication_data(d2, max_items, contents))>>
                 ELSE <<>>)

\* Streamlit keeps the value of a widget while runs draw it: a run that
\* reaches its end without drawing the sort widgets drops their values, and
\* they are drawn next with citations, descending
widgets_dropped(s) == [s EXCEPT !.sort_by = "citations", !.ascending = FALSE]

\* One run of the script of the results page from the session s: the
\* writes of the search, if the search button was pressed, then those of
\* the display block.  Streamlit ends a run at a yield point (a st.* call
\* or an access of st.session_state) when the user acts while it runs.
\* Each assignment of lines 211-213 is such an access, and calculate_metrics
\* runs between those of lines 212 and 213, so a run can be ended before
\* the search writes, between any two writes and after the last.
\* completed is the session of a run that reaches its end, cut the sessions
\* of the runs ended before, by the user or by calculate_metrics raising
\* (the writes of lines 211 and 212 are then done).
script_run(s, search_writes, search_raised, tie_order, enrich_button, contents) ==
    LET after_search == IF search_writes = <<>> THEN s
                        ELSE search_writes[Len(search_writes)]
        writes == search_writes
                  \o (IF search_raised THEN <<>>
                      ELSE display(after_search, tie_order, enrich_button, contents))
        last == IF writes = <<>> THEN s ELSE writes[Len(writes)]
    IN  [completed |-> IF search_raised THEN <<>>
                       ELSE IF drawn(last) THEN <<last>> ELSE <<widgets_dropped(last)>>,
         cut |-> {s} \cup {writes[k] : k \in 1..Len(writes)}]

\* pages/3_Citation_Distribution.py lines 16-25: the page takes the stored
\* batch itself, not a copy, and writes its publication_date column parsed
citation_distribution_page(s) ==
    IF drawn(s) /\ ~empty(s.search_results[1])
       /\ "publication_date" \in s.search_results[1].cols
    THEN LET d == s.search_results[1]
         IN  [s EXCEPT !.search_results =
                 <<SetCol(d, "publication_date",
                          [i \in 1..Len(d.rows) |-> to_datetime(d.rows[i]["publication_date"])])>>]
    ELSE s

\* the pages of src/pages; all but Citation Distribution work on a copy of
\* the stored batch
Pages == {"Citation Analytics", "Article Tracker", "Citation Distribution", "Impact Analysis"}

----------------------------------------------------------------------------
(* The calls *)

\* a call that takes the batch only and does not read the clock
NoParams == [target_paper_index |-> 0, n |-> 0, current_year |-> 0, search_method |-> "none"]

\* impactsparkpro.py lines 76-86: the session state of a new session
\* (selected_articles and impact_data are set here and never written again).
\* sort_by and ascending are the values of the widgets of lines 287-288,
\* kept in the session state under their keys: citations, descending when
\* the widgets are first drawn.
NewSession ==
    [search_performed |-> FALSE, search_results |-> <<>>, metrics |-> <<>>,
     sort_by |-> "citations", ascending |-> FALSE]

Call_calculate_impact_metrics ==
    LET r == calculate_impact_metrics(df)
    IN  /\ arg' = df
        /\ df' = r.df
        /\ ret' = r.ret
        /\ op' = "calculate_impact_metrics"
        /\ params' = NoParams
        /\ UNCHANGED <<now, ties, session>>

Call_calculate_metrics ==
    /\ arg' = df
    /\ ret' = calculate_metrics(df)
    /\ op' = "calculate_metrics"
    /\ params' = NoParams
    /\ UNCHANGED <<df, now, ties, session>>

Call_analyze_authors ==
    /\ arg' = df
    /\ ret' = analyze_authors(df)
    /\ op' = "analyze_authors"
    /\ params' = NoParams
    /\ UNCHANGED <<df, now, ties, session>>

Call_analyze_keywords ==
    /\ arg' = df
    /\ ret' = analyze_keywords(df)
    /\ op' = "analyze_keywords"
    /\ params' = NoParams
    /\ UNCHANGED <<df, now, ties, session>>

\* the target positions and result counts a caller passes
TargetIndices == -1..MaxTarget
ResultCounts == 0..MaxN

Call_find_similar_papers ==
    \E target_paper_index \in TargetIndices, n \in ResultCounts :
        \E r \in find_similar_papers(df, target_paper_index, n, ties) :
            /\ arg' = df
            /\ ret' = r
            /\ op' = "find_similar_papers"
            /\ params' = [NoParams EXCEPT !.target_paper_index = target_paper_index, !.n = n]
            /\ UNCHANGED <<df, now, ties, session>>

Call_analyze_publications_by_time ==
    LET r == analyze_publications_by_time(df, now)
    IN  /\ arg' = df
        /\ df' = r.df
        /\ ret' = r.ret
        /\ op' = "analyze_publications_by_time"
        /\ params' = [NoParams EXCEPT !.current_year = now]
        /\ UNCHANGED <<now, ties, session>>

\* impactsparkpro.py line 419: the charts are drawn for a non-empty batch
Call_publications_timeline ==
    /\ ~empty(df)
    /\ arg' = df
    /\ ret' = publications_timeline(df)
    /\ op' = "publications_timeline"
    /\ params' = NoParams
    /\ UNCHANGED <<df, now, ties, session>>

----------------------------------------------------------------------------
(* Batches of citation counts *)

RECURSIVE SeqsUpTo(_, _)
SeqsUpTo(S, n) ==
    IF n = 0 THEN {<<>>}
    ELSE LET shorter == SeqsUpTo(S, n - 1)
         IN  shorter \cup {Append(s, x) : s \in {t \in shorter : Len(t) = n - 1}, x \in S}

\* the worked examples of the specification
ExampleH   == <<10, 8, 5, 4, 3, 1>>
ExampleG   == <<25, 8, 5, 3, 3>>
ExampleI10 == <<15, 10, 9, 2>>

CitationVectors ==
    SeqsUpTo(0..MaxCit, MaxLen) \cup {ExampleH, ExampleG, ExampleI10}

\* a batch whose only column is citations
CitationFrame(v) ==
    [cols |-> {"citations"}, rows |-> [i \in 1..Len(v) |-> [c \in {"citations"} |-> Num(v[i])]]]

InitCit ==
    /\ df \in {CitationFrame(v) : v \in CitationVectors}
    /\ arg = EmptyFrame
    /\ op = "none"
    /\ ret = Ok(0)
    /\ now = 2025
    /\ params = NoParams
    /\ ties = "ascending"
    /\ session = NewSession

NextCit ==
    \/ Call_calculate_impact_metrics
    \/ Call_calculate_metrics

SpecCit == InitCit /\ [][NextCit]_vars

----------------------------------------------------------------------------
(* Batches of dated records *)

MaxRowsTime == 2

Date_2019_03_10 == <<"2", "0", "1", "9", "-", "0", "3", "-", "1", "0">>
Date_2020_02_29 == <<"2", "0", "2", "0", "-", "0", "2", "-", "2", "9">>
Date_2021_06_01 == <<"2", "0", "2", "1", "-", "0", "6", "-", "0", "1">>
\* 2021 is no leap year
Date_2021_02_29 == <<"2", "0", "2", "1", "-", "0", "2", "-", "2", "9">>
Text_n_a        == <<"n", "/", "a">>

DateCells ==
    {Str(Date_2019_03_10), Str(Date_2020_02_29), Str(Date_2021_06_01),
     Str(Date_2021_02_29), Str(Text_n_a), Str(<<>>), NaN}

TimeCitations == {0, 3, 8}

TimeRows ==
    {[c \in {"publication_date", "citations"} |->
        IF c = "citations" THEN Num(n) ELSE date] : date \in DateCells, n \in TimeCitations}

\* the years the clock may show: 2020 makes the 2021 record future-dated
ClockYears == {2020, 2021}

InitTime ==
    /\ df \in {[cols |-> {"publication_date", "citations"}, rows |-> rows] :
                 rows \in SeqsUpTo(TimeRows, MaxRowsTime)}
    /\ arg = EmptyFrame
    /\ op = "none"
    /\ ret = Ok(0)
    /\ now \in ClockYears
    /\ params = NoParams
    /\ ties = "ascending"
    /\ session = NewSession

NextTime ==
    \/ Call_analyze_publications_by_time
    \/ Call_calculate_impact_metrics

SpecTime == InitTime /\ [][NextTime]_vars

----------------------------------------------------------------------------
(* Batches of authored records *)

MaxRowsAuthors == 2

\* author texts over the names a, b and c: single names, lists with and
\* without padding, an empty piece, and names repeated inside one text
AuthorTexts ==
    {<<>>,
     <<"a">>,
     <<"b">>,
     <<"a", ",", "b">>,
     <<"b", ",", " ", "a">>,
     <<"a", ",", "a">>,
     <<"a", ",", "b", ",", "a">>,
     <<" ", "a", " ", ",", ",", "c">>,
     <<"c", ",", "a", ",", "b">>}

AuthorCells == {Str(t) : t \in AuthorTexts} \cup {NaN}

\* counts, and a record without a count
AuthorCitations == {Num(0), Num(2), NaN}

AuthorRows ==
    {[c \in {"authors", "citations"} |->
        IF c = "citations" THEN n ELSE a] : a \in AuthorCells, n \in AuthorCitations}

InitAuthors ==
    /\ df \in {[cols |-> {"authors", "citations"}, rows |-> rows] :
                 rows \in SeqsUpTo(AuthorRows, MaxRowsAuthors)}
    /\ arg = EmptyFrame
    /\ op = "none"
    /\ ret = Ok(0)
    /\ now = 2020
    /\ params = NoParams
    /\ ties = "ascending"
    /\ session = NewSession

NextAuthors == Call_analyze_authors

SpecAuthors == InitAuthors /\ [][NextAuthors]_vars

----------------------------------------------------------------------------
(* Batches of whole records, and every engine function *)

MaxRows == 2

Text_ab_cd  == <<"a", "b", " ", "c", "d">>
Text_The_ab == <<"T", "h", "e", " ", "a", "b">>
Text_cd_ef  == <<"c", "d", " ", "e", "f">>

RecordColumns == {"title", "abstract", "keywords", "authors", "citations", "publication_date"}

\* records as a normalizer hands them on, and records with text or nothing
\* where a number or a date belongs
SampleRecords ==
    {[title |-> Str(Text_ab_cd), abstract |-> NaN, keywords |-> Str(<<"a", ",", "b">>),
      authors |-> Str(<<"a", ",", "b">>), citations |-> Num(3),
      publication_date |-> Str(Date_2019_03_10)],
     [title |-> Str(Text_The_ab), abstract |-> Str(Text_cd_ef), keywords |-> Str(<<"a">>),
      authors |-> Str(<<"b", ",", " ", "a">>), citations |-> Num(0),
      publication_date |-> Str(Date_2021_06_01)],
     [title |-> NaN, abstract |-> NaN, keywords |-> NaN,
      authors |-> Str(<<"a", ",", "a">>), citations |-> Str(<<"3", ".", "5">>),
      publication_date |-> Str(<<>>)],
     [title |-> Str(Text_ab_cd), abstract |-> NaN, keywords |-> Str(<<"a", ",", " ", "b">>),
      authors |-> NaN, citations |-> NaN,
      publication_date |-> Str(Text_n_a)]}

Init ==
    /\ df \in {[cols |-> RecordColumns, rows |-> rows] : rows \in SeqsUpTo(SampleRecords, MaxRows)}
              \cup {EmptyFrame}
    /\ arg = EmptyFrame
    /\ op = "none"
    /\ ret = Ok(0)
    /\ now = 2020
    /\ params = NoParams
    \* one build's tie order here; SpecSimilar ranges over both
    /\ ties = "ascending"
    /\ session = NewSession

Next ==
    \/ Call_calculate_impact_metrics
    \/ Call_calculate_metrics
    \/ Call_analyze_publications_by_time
    \/ Call_analyze_authors
    \/ Call_analyze_keywords
    \/ Call_find_similar_papers

Spec == Init /\ [][Next]_vars

----------------------------------------------------------------------------
(* Batches of whole records, every engine function, and the clock *)

MaxRowsRepeat == 2

\* the last year the clock reaches
MaxYear == 2021

\* the clock passes New Year
Tick ==
    /\ now < MaxYear
    /\ now' = now + 1
    /\ UNCHANGED <<df, arg, op, ret, params, ties, session>>

InitRepeat ==
    /\ df \in {[cols |-> RecordColumns, rows |-> rows] :
                 rows \in SeqsUpTo(SampleRecords, MaxRowsRepeat)}
    /\ arg = EmptyFrame
    /\ op = "none"
    /\ ret = Ok(0)
    /\ now = MaxYear - 1
    /\ params = NoParams
    /\ ties = "ascending" \* one build: a build sorts equal values the same way at every call
    /\ session = NewSession

NextRepeat ==
    \/ Call_calculate_impact_metrics
    \/ Call_analyze_publications_by_time
    \/ Call_analyze_authors
    \/ Call_analyze_keywords
    \/ Call_find_similar_papers
    \/ Tick

SpecRepeat == InitRepeat /\ [][NextRepeat]_vars

----------------------------------------------------------------------------
(* Batches of texts, for the similarity ranker *)

MaxDocs == 3

Text_The == <<"T", "h", "e">>
Text_cd  == <<"c", "d">>

\* titles with terms, a title of stop words only, and no title
TitleCells == {Str(Text_ab_cd), Str(Text_The_ab), Str(Text_The), NaN}

\* records with a title or none and no keywords, and records with keywords
TextRows ==
    {[c \in {"title", "keywords"} |-> IF c = "title" THEN t ELSE NaN] : t \in TitleCells}
    \cup {[c \in {"title", "keywords"} |-> IF c = "title" THEN t ELSE Str(Text_cd)] :
             t \in {Str(Text_ab_cd)}}

\* batches of texts, and batches without any text column
InitSimilar ==
    /\ df \in {[cols |-> {"title", "keywords"}, rows |-> rows] :
                 rows \in SeqsUpTo(TextRows, MaxDocs)}
              \cup {CitationFrame(v) : v \in SeqsUpTo({0}, MaxDocs)}
    /\ arg = EmptyFrame
    /\ op = "none"
    /\ ret = Ok(0)
    /\ now = 2020
    /\ params = NoParams
    /\ ties \in TieOrders
    /\ session = NewSession

NextSimilar == Call_find_similar_papers

SpecSimilar == InitSimilar /\ [][NextSimilar]_vars

----------------------------------------------------------------------------
(* Properties of the citation statistics, checked under SpecCit *)

\* the citation counts of the batch the last call was given
ArgCitations == [i \in 1..Len(arg.rows) |-> arg.rows[i]["citations"].n]

\* the batch the last call was given holds non-negative integer counts
NonNegCounts(d) ==
    /\ "citations" \in d.cols
    /\ \A i \in 1..Len(d.rows) : d.rows[i]["citations"].t = "num" /\ d.rows[i]["citations"].n >= 0

SetMax(S) == CHOOSE m \in S : \A x \in S : x <= m

\* the k-th largest count of v, by counting and without sorting
KthLargest(v, k) ==
    CHOOSE x \in Range(v) :
        /\ Cardinality({j \in DOMAIN v : v[j] > x}) < k
        /\ Cardinality({j \in DOMAIN v : v[j] >= x}) >= k

RECURSIVE TopSum(_, _)
TopSum(v, k) == IF k = 0 THEN 0 ELSE KthLargest(v, k) + TopSum(v, k - 1)

LargestHRank(v) == SetMax({0} \cup {i \in DOMAIN v : KthLargest(v, i) >= i})

LargestGRank(v) == SetMax({0} \cup {i \in DOMAIN v : TopSum(v, i) >= i * i})

AfterImpactMetrics == op = "calculate_impact_metrics" /\ NonNegCounts(arg)

\* C1: for every vector of non-negative integer counts, h_index is the largest
\* 1-indexed rank i whose i-th largest count is >= i (0 when there is none);
\* the counts 10, 8, 5, 4, 3, 1 give h_index 4.
C1_HIndexIsLargestRank ==
    AfterImpactMetrics =>
        /\ ret.val.h_index = LargestHRank(ArgCitations)
        /\ (ArgCitations = ExampleH => ret.val.h_index = 4)

C1_Witness ==
    AfterImpactMetrics /\ ArgCitations = ExampleH /\ ret.val.h_index = 4

\* C2: for every non-empty vector, h_index is at most the number of records
\* and at most the largest count.
C2_HIndexBounded ==
    (AfterImpactMetrics /\ Len(arg.rows) > 0) =>
        /\ ret.val.h_index <= ret.val.total_publications
        /\ ret.val.total_publications = Len(arg.rows)
        /\ ret.val.h_index <= SetMax(Range(ArgCitations))

C2_Witness ==
    /\ AfterImpactMetrics
    /\ Len(arg.rows) = 3
    /\ ret.val.h_index = 2
    /\ SetMax(Range(ArgCitations)) = 2

\* C3: the g_index found by the walk that stops at the first failing rank is
\* the largest rank i <= N whose top-i sum is >= i*i over all ranks: the early
\* exit cuts off no later qualifying rank.
C3_GIndexEarlyExitIsFullScan ==
    AfterImpactMetrics => ret.val.g_index = LargestGRank(ArgCitations)

\* the walk stopped early: it accepted a rank and left ranks unvisited
C3_Witness ==
    /\ AfterImpactMetrics
    /\ ret.val.g_index >= 1
    /\ ret.val.g_index + 1 < Len(arg.rows)

\* C4 as the specification states it: the counts 25, 8, 5, 3, 3 give g_index 2.
C4_ExampleGIsTwo ==
    (AfterImpactMetrics /\ ArgCitations = ExampleG) => ret.val.g_index = 2

\* C4, amended: the counts 25, 8, 5, 3, 3 have the running sums 25, 33, 38,
\* 41, 44, each >= the square of its rank, so the walk never stops and
\* g_index is 5.
C4_ExampleGIsFive ==
    (AfterImpactMetrics /\ ArgCitations = ExampleG) => ret.val.g_index = 5

C4_Witness ==
    AfterImpactMetrics /\ ArgCitations = ExampleG /\ ret.val.g_index = 5

\* C5: i10_index is the number of records with at least 10 citations; the
\* counts 15, 10, 9, 2 give i10_index 2.
C5_I10CountsTenOrMore ==
    AfterImpactMetrics =>
        /\ ret.val.i10_index = Cardinality({i \in DOMAIN ArgCitations : ArgCitations[i] >= 10})
        /\ (ArgCitations = ExampleI10 => ret.val.i10_index = 2)

C5_Witness ==
    AfterImpactMetrics /\ ArgCitations = ExampleI10 /\ ret.val.i10_index = 2

\* C6: for every non-empty vector the percentile list has one entry for each
\* of 10, 25, 50, 75, 90, 95, 99, in that order, with non-decreasing values.
C6_PercentilesOrderedAndMonotone ==
    (AfterImpactMetrics /\ Len(arg.rows) > 0) =>
        LET ps == ret.val.citation_percentiles
        IN  /\ [k \in DOMAIN ps |-> ps[k].percentile] = <<10, 25, 50, 75, 90, 95, 99>>
            /\ \A j, k \in DOMAIN ps : j < k => FracLeq(ps[j].value, ps[k].value)

\* an unsorted batch whose percentiles interpolate and strictly increase
C6_Witness ==
    /\ AfterImpactMetrics
    /\ Len(arg.rows) = 3
    /\ ArgCitations[1] > ArgCitations[2]
    /\ LET ps == ret.val.citation_percentiles
       IN  /\ ps[1].value.den > 1
           /\ ~FracLeq(ps[7].value, ps[1].value)

\* the values both implementations report
SharedMetrics(m) ==
    [h_index |-> m.h_index, total_publications |-> m.total_publications,
     total_citations |-> m.total_citations]

\* C28: the two h-index implementations agree: for every batch of
\* non-negative integer citation counts, calculate_metrics and
\* calculate_impact_metrics return the same h_index, total_publications and
\* total_citations.
C28_HIndexImplementationsAgree ==
    /\ (op = "calculate_metrics" /\ NonNegCounts(arg)) =>
          /\ ret.exc = "none"
          /\ SharedMetrics(ret.val) = SharedMetrics(calculate_impact_metrics(arg).ret.val)
    /\ AfterImpactMetrics =>
          /\ ret.exc = "none"
          /\ SharedMetrics(ret.val) = SharedMetrics(calculate_metrics(arg).val)

\* the loop of calculate_metrics stopped at rank 2 of 3: the counts 5, 1, 1
\* have h_index 1
C28_Witness ==
    /\ op = "calculate_metrics"
    /\ ArgCitations = <<5, 1, 1>>
    /\ ret.val.h_index = 1
    /\ calculate_impact_metrics(arg).ret.val.h_index = 1

----------------------------------------------------------------------------
(* Properties of the temporal aggregator, checked under SpecTime *)

\* the record's publication_date parses to a day
ValidDate(r) == to_datetime(r["publication_date"]).t = "ts"

DatedRecords(d) == {i \in 1..Len(d.rows) : ValidDate(d.rows[i])}

YearOfRecord(r) == to_datetime(r["publication_date"]).n \div 10000

\* C10: for every batch with a publication_date column, the per-year counts of
\* analyze_publications_by_time sum to the number of records with a valid
\* date, a record without one is in no year group, and calculate_impact_metrics
\* still counts it in total_publications.
C10_YearCountsSumToDatedRecords ==
    /\ (/\ op = "analyze_publications_by_time"
        /\ "publication_date" \in arg.cols
        /\ ret.exc = "none") =>
           LET by_year == ret.val.publications_by_year
           IN  /\ SumSeq([k \in DOMAIN by_year |-> by_year[k].count])
                    = Cardinality(DatedRecords(arg))
               /\ \A k \in DOMAIN by_year :
                    by_year[k].count =
                        Cardinality({i \in DatedRecords(arg) :
                                        YearOfRecord(arg.rows[i]) = by_year[k].year})
    /\ (op = "calculate_impact_metrics" /\ "publication_date" \in arg.cols) =>
           ret.val.total_publications = Len(arg.rows)

\* a batch of one dated and one undated record, aggregated by year
C10_Witness ==
    /\ op = "analyze_publications_by_time"
    /\ ret.exc = "none"
    /\ Len(arg.rows) = 2
    /\ Cardinality(DatedRecords(arg)) = 1
    /\ Len(ret.val.publications_by_year) = 1
    /\ ret.val.publications_by_year[1].count = 1

\* the validly dated records of year y in the batch handed over
RecordsOfYear(y) == {i \in DatedRecords(arg) : YearOfRecord(arg.rows[i]) = y}

\* max(1, current_year - y) for the year the last call read from the clock
AgeFloored(y) ==
    IF params.current_year - y > 1 THEN params.current_year - y ELSE 1

RECURSIVE CitationsOfRecords(_)
CitationsOfRecords(S) ==
    IF S = {} THEN 0
    ELSE LET i == CHOOSE j \in S : TRUE
         IN  arg.rows[i]["citations"].n + CitationsOfRecords(S \ {i})

VelocityByYear == ret.val.citation_velocity

\* C18: each dated record's citation velocity is citations / max(1,
\* current_year - publication_year), the divisor being >= 1 also for
\* current-year and future-dated records, and the velocity reported for a
\* year is the mean of its records' velocities (the records of a year share
\* the divisor, so the mean is their citation sum / (divisor * count)).
C18_VelocityFlooredAgeMean ==
    (op = "analyze_publications_by_time" /\ ret.exc = "none" /\ ~empty(arg)) =>
        /\ \A i \in DatedRecords(arg) :
              df.rows[i]["citation_velocity"] =
                  Flt(Frac(arg.rows[i]["citations"].n,
                           AgeFloored(YearOfRecord(arg.rows[i]))))
        /\ {VelocityByYear[k].year : k \in DOMAIN VelocityByYear} =
              {YearOfRecord(arg.rows[i]) : i \in DatedRecords(arg)}
        /\ \A k \in DOMAIN VelocityByYear :
              LET y == VelocityByYear[k].year
              IN  VelocityByYear[k].citation_velocity =
                      Flt(Frac(CitationsOfRecords(RecordsOfYear(y)),
                               AgeFloored(y) * Cardinality(RecordsOfYear(y))))

\* two records dated 2021 with 3 and 8 citations, aggregated in 2020: the
\* future-dated records divide by 1 and the year reports 11/2
C18_Witness ==
    /\ op = "analyze_publications_by_time"
    /\ ret.exc = "none"
    /\ params.current_year = 2020
    /\ Cardinality(RecordsOfYear(2021)) = 2
    /\ Len(VelocityByYear) = 1
    /\ VelocityByYear[1].citation_velocity = Flt(Frac(11, 2))

----------------------------------------------------------------------------
(* Properties of the author analyzer, checked under SpecAuthors *)

\* analyze_authors returned a collaboration matrix for a batch of records
ReturnedMatrix ==
    op = "analyze_authors" /\ ret.exc = "none" /\ ~empty(arg) /\ "authors" \in arg.cols

Collaboration == ret.val.author_collaborations

\* C8: whenever analyze_authors returns a collaboration matrix, it is
\* symmetric: cell [a][b] = cell [b][a] for all significant authors a, b.
C8_CollaborationSymmetric ==
    ReturnedMatrix =>
        /\ Len(Collaboration.cells) = Len(Collaboration.index)
        /\ \A i, j \in DOMAIN Collaboration.index :
              Collaboration.cells[i][j] = Collaboration.cells[j][i]

\* two significant authors who wrote together
C8_Witness ==
    /\ ReturnedMatrix
    /\ Len(Collaboration.index) >= 2
    /\ Collaboration.cells[1][2] >= 1
    /\ Collaboration.cells[2][1] >= 1

\* C9: the diagonal of the collaboration matrix is all zero, also when one
\* record's author text names an author more than once.
C9_DiagonalZero ==
    ReturnedMatrix =>
        \A i \in DOMAIN Collaboration.index : Collaboration.cells[i][i] = 0

\* the trimmed pieces of the author text of record i of the batch handed over
AuthorPieces(i) ==
    LET v == arg.rows[i]["authors"]
    IN  IF v.t = "str" THEN LET parts == split(v.s, ",")
                            IN  [k \in DOMAIN parts |-> strip(parts[k])]
        ELSE <<>>

\* the occurrences of a name: the places <<record, piece>> where it stands
Occurrences(x) ==
    UNION {{<<i, k>> : k \in {j \in DOMAIN AuthorPieces(i) : AuthorPieces(i)[j] = x}} :
             i \in 1..Len(arg.rows)}

CreditedNames ==
    UNION {Range(AuthorPieces(i)) : i \in 1..Len(arg.rows)} \ {<<>>}

\* the names standing in at least 2 places
RepeatedNames == {x \in CreditedNames : Cardinality(Occurrences(x)) >= 2}

CitationsOf(i) == arg.rows[i]["citations"].n

\* the citations of a set of occurrences, added up
RECURSIVE CitationSum(_)
CitationSum(S) ==
    IF S = {} THEN 0
    ELSE LET o == CHOOSE y \in S : TRUE IN CitationsOf(o[1]) + CitationSum(S \ {o})

\* the h-index of the citations of a name's occurrences: the largest h with
\* at least h occurrences of h or more citations
OccurrenceH(x) ==
    SetMax({0} \cup {h \in 1..Cardinality(Occurrences(x)) :
                        Cardinality({o \in Occurrences(x) : CitationsOf(o[1]) >= h}) >= h})

AuthorImpact == ret.val.author_impact

\* C14: analyze_authors never raises on a non-empty batch, and when no name
\* stands in at least 2 places it returns an empty author-impact table and
\* an empty collaboration matrix.
C14_AuthorsNeverRaises ==
    (op = "analyze_authors" /\ ~empty(arg) /\ "authors" \in arg.cols) =>
        /\ ret.exc = "none"
        /\ RepeatedNames = {} =>
              /\ AuthorImpact = <<>>
              /\ Collaboration.index = <<>>
              /\ Collaboration.cells = <<>>

\* C19: the author-impact table has exactly one row for each name standing
\* in at least 2 places and none for another name; paper_count is the
\* number of the name's occurrences, citations their citation sum and
\* h_index the h-index of their citations.
C19_AuthorImpactRows ==
    ReturnedMatrix =>
        /\ {AuthorImpact[k].author : k \in DOMAIN AuthorImpact} = RepeatedNames
        /\ Len(AuthorImpact) = Cardinality(RepeatedNames)
        /\ \A k \in DOMAIN AuthorImpact :
              LET x == AuthorImpact[k].author
              IN  /\ AuthorImpact[k].paper_count = Cardinality(Occurrences(x))
                  /\ AuthorImpact[k].citations =
                        Flt(Frac(CitationSum(Occurrences(x)), 1))
                  /\ AuthorImpact[k].h_index = OccurrenceH(x)

\* a name standing twice in one record and once in another, next to a name
\* that stands once
C19_Witness ==
    /\ ReturnedMatrix
    /\ Len(arg.rows) = 2
    /\ \E x \in RepeatedNames :
          /\ Cardinality(Occurrences(x)) = 3
          /\ Cardinality({o[1] : o \in Occurrences(x)}) = 2
          /\ OccurrenceH(x) = 2
    /\ CreditedNames # RepeatedNames

\* C20: for two distinct significant authors a and b, cell [a][b] is the
\* number of records whose author list holds both a and b.
C20_CellCountsSharedRecords ==
    ReturnedMatrix =>
        \A i, j \in DOMAIN Collaboration.index :
            i # j =>
                Collaboration.cells[i][j] =
                    Cardinality({r \in 1..Len(arg.rows) :
                                    /\ Collaboration.index[i] \in Range(AuthorPieces(r))
                                    /\ Collaboration.index[j] \in Range(AuthorPieces(r))})

----------------------------------------------------------------------------
(* Properties of the similarity ranker, checked under SpecSimilar *)

\* the position (from 0) the last call's target_paper_index names in a
\* batch of N records, negative indices counting from the end
TargetPosition ==
    IF params.target_paper_index < 0 THEN Len(arg.rows) + params.target_paper_index
    ELSE params.target_paper_index

\* find_similar_papers was called on at least 2 records with a valid target
RankedCall ==
    /\ op = "find_similar_papers"
    /\ Len(arg.rows) >= 2
    /\ TargetPosition \in 0..(Len(arg.rows) - 1)

TextColumns == {"abstract", "title", "keywords"}

\* the terms of record i of the batch handed over: the words of two or more
\* characters of its text cells that are no stop words
TermsOfRecord(i) ==
    UNION {Range(analyze_words(arg.rows[i][c].s)) :
             c \in {x \in TextColumns \cap arg.cols : arg.rows[i][x].t = "str"}}

\* some record of the batch has a term
UsableText == \E i \in 1..Len(arg.rows) : TermsOfRecord(i) # {}

ReturnedPositions == {ret.val[k].index : k \in DOMAIN ret.val}

\* C11: for every batch of at least 2 records, every valid target index and
\* every n >= 0, the result of find_similar_papers does not hold the target
\* record, also when another record ties with it or it has no terms.
C11_TargetNeverReturned ==
    (RankedCall /\ ret.exc = "none") => TargetPosition \notin ReturnedPositions

\* C12: for every batch of N >= 2 records with usable text, a valid target
\* and n >= 0, find_similar_papers returns exactly min(n, N - 1) records (so
\* at most n), each a distinct row of the batch.
C12_ReturnsMinOfNAndRest ==
    (RankedCall /\ UsableText) =>
        /\ ret.exc = "none"
        /\ Len(ret.val) <= params.n
        /\ Len(ret.val) = IF params.n < Len(arg.rows) - 1 THEN params.n
                          ELSE Len(arg.rows) - 1
        /\ Cardinality(ReturnedPositions) = Len(ret.val)
        /\ \A k \in DOMAIN ret.val :
              /\ ret.val[k].index \in 0..(Len(arg.rows) - 1)
              /\ ret.val[k].row = arg.rows[ret.val[k].index + 1]

\* 3 records and n = 1: fewer returned than the rest of the batch
C12_Witness ==
    /\ RankedCall /\ UsableText
    /\ Len(arg.rows) = 3
    /\ params.n = 1
    /\ Len(ret.val) = 1

\* C17: find_similar_papers returns an empty result and raises nothing
\* whenever the batch has fewer than 2 records or no usable text (no text
\* column, every text missing, or no record with a term).
C17_NoTextEmptyResult ==
    (/\ op = "find_similar_papers"
     /\ \/ Len(arg.rows) < 2
        \/ RankedCall /\ ~UsableText) =>
        ret = Ok(<<>>)

\* the words of the text of record i of the batch handed over
WordsOfRecord(i) == analyze_words(document(arg.rows[i], features(arg)))

\* the square of the cosine similarity of record i (from 1) to the target of
\* the last call; the similarities are not negative, so their squares order
\* them
SimilarityToTarget(i) ==
    LET words == [j \in 1..Len(arg.rows) |-> WordsOfRecord(j)]
        terms == sorted_terms(UNION {Range(words[j]) : j \in DOMAIN words})
    IN  cosine_squared(words, terms, TargetPosition + 1, i)

\* C24: find_similar_papers returns the top-n non-target records by
\* similarity: the returned rows are in non-increasing order of similarity
\* to the target, every non-target record left out has a similarity <= that
\* of every returned record, and each returned row is the row of the batch.
C24_TopNBySimilarity ==
    (RankedCall /\ UsableText /\ ret.exc = "none") =>
        /\ \A k \in 1..(Len(ret.val) - 1) :
              FracLeq(SimilarityToTarget(ret.val[k + 1].index + 1),
                      SimilarityToTarget(ret.val[k].index + 1))
        /\ \A i \in 1..Len(arg.rows) :
              (i - 1 # TargetPosition /\ i - 1 \notin ReturnedPositions) =>
                  \A k \in DOMAIN ret.val :
                      FracLeq(SimilarityToTarget(i), SimilarityToTarget(ret.val[k].index + 1))
        /\ \A k \in DOMAIN ret.val : ret.val[k].row = arg.rows[ret.val[k].index + 1]

----------------------------------------------------------------------------
(* Properties of the engine on any batch, checked under Spec *)

\* some record of the batch handed over has a missing or unparseable date
SomeRecordUndated ==
    /\ "publication_date" \in arg.cols
    /\ \E i \in 1..Len(arg.rows) : ~ValidDate(arg.rows[i])

\* the citations of the batch handed over hold no text
NoTextCitations ==
    /\ "citations" \in arg.cols
    /\ \A i \in 1..Len(arg.rows) : arg.rows[i]["citations"].t # "str"

\* the places <<record, piece>> of a keyword in the validly dated records of
\* year y
DatedKeywordPlaces(keyword, y) ==
    UNION {{<<i, k>> : k \in {j \in DOMAIN split_names(arg.rows[i]["keywords"]) :
                                split_names(arg.rows[i]["keywords"])[j] = keyword}} :
             i \in RecordsOfYear(y)}

\* C15: for a batch in which some record has a missing or unparseable
\* publication_date, analyze_publications_by_time and the keyword trends of
\* analyze_keywords complete without raising and count that record in no
\* year.  (Stated for batches whose citations hold no text.)
C15_UndatedLeftOutNoRaise ==
    (/\ op \in {"analyze_publications_by_time", "analyze_keywords"}
     /\ ~empty(arg)
     /\ SomeRecordUndated
     /\ NoTextCitations) =>
        /\ ret.exc = "none"
        /\ op = "analyze_publications_by_time" =>
              \A k \in DOMAIN ret.val.publications_by_year :
                  ret.val.publications_by_year[k].count =
                      Cardinality(RecordsOfYear(ret.val.publications_by_year[k].year))
        /\ op = "analyze_keywords" =>
              \A k \in DOMAIN ret.val.keyword_trends :
                  LET row == ret.val.keyword_trends[k]
                  IN  row.count = Cardinality(DatedKeywordPlaces(row.keyword, row.year))

\* a citations cell the way the specification reads it: a number, the number
\* a text of digits spells, and 0 for anything else
AsCount(v) ==
    IF v.t = "num" THEN v
    ELSE IF v.t = "str" /\ v.s # <<>> /\ \A k \in DOMAIN v.s : v.s[k] \in Range(Digits)
         THEN Num(ParseInt(v.s))
    ELSE Num(0)

\* the batch handed over with every citations value read as a count
ZeroFilled ==
    [arg EXCEPT !.rows = [i \in 1..Len(arg.rows) |->
                            [arg.rows[i] EXCEPT !["citations"] = AsCount(@)]]]

SomeCitationNoNumber ==
    /\ "citations" \in arg.cols
    /\ \E i \in 1..Len(arg.rows) : arg.rows[i]["citations"].t # "num"

\* C16: every metrics function treats a missing or non-numeric citations
\* value as 0 and does not raise over it: its outcome is the outcome on the
\* same batch with that value replaced.
C16_BadCitationsCountZero ==
    (~empty(arg) /\ SomeCitationNoNumber) =>
        /\ op = "calculate_impact_metrics" => ret = calculate_impact_metrics(ZeroFilled).ret
        /\ op = "calculate_metrics" => ret = calculate_metrics(ZeroFilled)
        /\ op = "analyze_publications_by_time" =>
              ret = analyze_publications_by_time(ZeroFilled, params.current_year).ret
        /\ op = "analyze_authors" => ret = analyze_authors(ZeroFilled)
        /\ op = "analyze_keywords" => ret = analyze_keywords(ZeroFilled)

\* C7: on an empty batch every engine function returns its empty result and
\* raises nothing: the two metrics functions return all counts and indices 0
\* (with no percentiles), the analyses return all their tables empty and
\* find_similar_papers returns an empty table.
C7_EmptyBatchEmptyResult ==
    (op # "none" /\ empty(arg)) =>
        /\ ret.exc = "none"
        /\ op = "calculate_impact_metrics" =>
              /\ ret.val.total_publications = 0 /\ ret.val.total_citations = Zero
              /\ ret.val.avg_citations = Zero
              /\ ret.val.h_index = 0 /\ ret.val.i10_index = 0 /\ ret.val.g_index = 0
              /\ ret.val.citation_percentiles = <<>>
        /\ op = "calculate_metrics" =>
              /\ ret.val.total_publications = 0 /\ ret.val.total_citations = Zero
              /\ ret.val.avg_citations = Zero
              /\ ret.val.h_index = 0
        /\ op = "analyze_publications_by_time" =>
              /\ ret.val.publications_by_year = <<>>
              /\ ret.val.citations_by_year = <<>>
              /\ ret.val.citation_velocity = <<>>
        /\ op = "analyze_authors" =>
              /\ ret.val.author_impact = <<>>
              /\ ret.val.author_collaborations.index = <<>>
              /\ ret.val.author_collaborations.cells = <<>>
        /\ op = "analyze_keywords" =>
              /\ ret.val.keyword_frequency = <<>>
              /\ ret.val.keyword_impact = <<>>
              /\ ret.val.keyword_trends = <<>>
        /\ op = "find_similar_papers" => ret.val = <<>>
        /\ df = arg

\* calculate_metrics was handed pd.DataFrame()
C7_Witness ==
    /\ op = "calculate_metrics"
    /\ arg = EmptyFrame
    /\ ret.exc = "none"
    /\ ret.val.total_publications = 0

\* the functions of the analytics engine
EngineFunctions ==
    {"calculate_impact_metrics", "analyze_publications_by_time", "analyze_authors",
     "analyze_keywords", "find_similar_papers"}

\* C27: the engine functions treat the input batch as read-only: after
\* calculate_impact_metrics, analyze_publications_by_time, analyze_authors,
\* analyze_keywords or find_similar_papers returns, the caller's batch has
\* the columns and the values it had before the call.
C27_BatchReadOnly ==
    (op \in EngineFunctions /\ ret.exc = "none") => df = arg

----------------------------------------------------------------------------
(* Properties of repeated calls, checked under SpecRepeat *)

\* the step calls again the function called last, on the batch as that call
\* left it and with the same arguments
CalledAgain ==
    /\ op \in EngineFunctions
    /\ op' = op
    /\ arg' = df
    /\ params'.target_paper_index = params.target_paper_index
    /\ params'.n = params.n

\* C13 as stated: a function called twice in succession on the same batch
\* returns equal results, nothing but the batch affecting the result.
C13_RepeatedCallSameResult == [][CalledAgain => ret' = ret]_vars

\* C13 amended: a function called twice in succession on the same batch
\* returns equal results provided the clock shows the same year at both
\* calls (analyze_publications_by_time reads the year from the clock).
C13_RepeatedCallSameResultSameYear ==
    [][(CalledAgain /\ params'.current_year = params.current_year) => ret' = ret]_vars

\* analyze_publications_by_time returned per-year tables for a batch that an
\* earlier call of it had parsed and extended, with text among the
\* citations (on an undated record)
C13_Witness ==
    /\ op = "analyze_publications_by_time"
    /\ "citation_velocity" \in arg.cols
    /\ HasStr(Col(arg, "citations"))
    /\ ret.exc = "none"
    /\ Len(ret.val.citation_velocity) >= 1
    /\ df = arg

----------------------------------------------------------------------------
(* Batches of keyword records, for the keyword analyzer *)

MaxRowsKeywords == 3

KeywordColumns == {"keywords", "citations", "publication_date", "title"}

\* records with one keyword, with a keyword written twice, with two
\* keywords, with an empty keyword text and with no keywords
KeywordRows ==
    {[keywords |-> Str(<<"a">>), citations |-> Num(1),
      publication_date |-> Str(Date_2019_03_10), title |-> Str(Text_ab_cd)],
     [keywords |-> Str(<<"a", ",", " ", "a">>), citations |-> Num(4),
      publication_date |-> Str(Date_2021_06_01), title |-> Str(Text_ab_cd)],
     [keywords |-> Str(<<"b", ",", "a">>), citations |-> Num(4),
      publication_date |-> Str(Date_2019_03_10), title |-> NaN],
     [keywords |-> Str(<<>>), citations |-> Num(1),
      publication_date |-> Str(<<>>), title |-> Str(Text_ab_cd)],
     [keywords |-> NaN, citations |-> Num(4),
      publication_date |-> Str(Date_2021_06_01), title |-> Str(Text_ab_cd)],
     [keywords |-> NaN, citations |-> Num(1),
      publication_date |-> Str(Date_2019_03_10), title |-> Str(Text_The_ab)]}

\* the batch of the rows with the columns cols only
Project(rows, cols) ==
    [cols |-> cols, rows |-> [i \in DOMAIN rows |-> [c \in cols |-> rows[i][c]]]]

\* batches with a keywords column and batches without one
InitKeywords ==
    /\ df \in {Project(rows, cols) :
                 rows \in SeqsUpTo(KeywordRows, MaxRowsKeywords),
                 cols \in {KeywordColumns, KeywordColumns \ {"keywords"}}}
    /\ arg = EmptyFrame
    /\ op = "none"
    /\ ret = Ok(0)
    /\ now = 2020
    /\ params = NoParams
    /\ ties = "ascending"
    /\ session = NewSession

NextKeywords == Call_analyze_keywords

SpecKeywords == InitKeywords /\ [][NextKeywords]_vars

----------------------------------------------------------------------------
(* Properties of the keyword analyzer, checked under SpecKeywords *)

\* the trimmed pieces of the keyword text of record i of the batch handed over
KeywordPieces(i) ==
    IF "keywords" \in arg.cols THEN split_names(arg.rows[i]["keywords"]) ELSE <<>>

\* the keywords of the batch handed over
BatchKeywords == UNION {Range(KeywordPieces(i)) : i \in 1..Len(arg.rows)} \ {<<>>}

\* the records carrying a keyword
RecordsCarrying(kw) == {i \in 1..Len(arg.rows) : kw \in Range(KeywordPieces(i))}

\* analyze_keywords returned from its explicit-keyword mode
ExplicitMode ==
    /\ op = "analyze_keywords"
    /\ ~empty(arg)
    /\ "keywords" \in arg.cols
    /\ ~all_na(arg, "keywords")
    /\ ret.exc = "none"

\* the citations of a set of records, added up
RECURSIVE RecordCitations(_)
RecordCitations(S) ==
    IF S = {} THEN 0
    ELSE LET i == CHOOSE y \in S : TRUE
         IN  arg.rows[i]["citations"].n + RecordCitations(S \ {i})

\* C21: in explicit-keyword mode keyword_impact has a row for a keyword if
\* and only if the keyword appears in at least 3 records, and the row's
\* paper_count, total_citations and avg_citations are the count, the
\* citation sum and sum/count of the records carrying the keyword.
C21_ImpactRowsOfThreeRecords ==
    ExplicitMode =>
        /\ \A kw \in BatchKeywords :
              (\E k \in DOMAIN ret.val.keyword_impact : ret.val.keyword_impact[k].keyword = kw)
                  <=> Cardinality(RecordsCarrying(kw)) >= 3
        /\ \A k \in DOMAIN ret.val.keyword_impact :
              LET row == ret.val.keyword_impact[k]
                  records == RecordsCarrying(row.keyword)
              IN  /\ row.paper_count = Cardinality(records)
                  /\ row.total_citations = Flt(Frac(RecordCitations(records), 1))
                  /\ row.avg_citations =
                        Flt(Frac(RecordCitations(records), Cardinality(records)))

\* the keywords carried by more records than kw
MoreFrequent(kw) ==
    {x \in BatchKeywords : Cardinality(RecordsCarrying(x)) > Cardinality(RecordsCarrying(kw))}

\* C22: in explicit-keyword mode every row of keyword_trends names one of
\* the 20 most frequent keywords of the batch, and its count is the number
\* of that keyword's records published in the row's year.
C22_TrendRowsCountRecordsOfYear ==
    (ExplicitMode /\ "publication_date" \in arg.cols) =>
        \A k \in DOMAIN ret.val.keyword_trends :
            LET row == ret.val.keyword_trends[k]
            IN  /\ row.keyword \in BatchKeywords
                /\ Cardinality(MoreFrequent(row.keyword)) < 20
                /\ row.count =
                      Cardinality(RecordsCarrying(row.keyword) \cap RecordsOfYear(row.year))

\* no record of the batch handed over has a usable keyword: the keywords
\* column is absent, or every value is missing or the empty text
NoUsableKeyword ==
    \/ "keywords" \notin arg.cols
    \/ \A i \in 1..Len(arg.rows) : arg.rows[i]["keywords"] \in {NaN, Str(<<>>)}

\* the terms of the title of record i of the batch handed over
TitleTerms(i) ==
    IF "title" \in arg.cols /\ arg.rows[i]["title"].t = "str"
    THEN analyze_ngrams(arg.rows[i]["title"].s)
    ELSE <<>>

\* the terms standing in at least 3 titles
TermsOfThreeTitles ==
    {t \in UNION {Range(TitleTerms(i)) : i \in 1..Len(arg.rows)} :
        Cardinality({i \in 1..Len(arg.rows) : t \in Range(TitleTerms(i))}) >= 3}

\* C23: whenever no record of a non-empty batch has a usable keyword,
\* analyze_keywords takes the fallback mode: it returns, keyword_frequency
\* holds the title terms with their numbers of occurrences, and
\* keyword_impact and keyword_trends are empty.
C23_NoKeywordsFallsBackToTitles ==
    (op = "analyze_keywords" /\ ~empty(arg) /\ NoUsableKeyword) =>
        /\ ret.exc = "none"
        /\ ret.val.keyword_impact = <<>>
        /\ ret.val.keyword_trends = <<>>
        /\ {ret.val.keyword_frequency[k].keyword : k \in DOMAIN ret.val.keyword_frequency}
              = TermsOfThreeTitles
        /\ \A k \in DOMAIN ret.val.keyword_frequency :
              ret.val.keyword_frequency[k].frequency =
                  SumSeq([i \in 1..Len(arg.rows) |->
                             CountIn(TitleTerms(i), ret.val.keyword_frequency[k].keyword)])

----------------------------------------------------------------------------
(* Batches of dated records, for the publications timeline *)

MaxRowsTimeline == 4

TimelineDates ==
    {Str(Date_2019_03_10), Str(Date_2020_02_29), Str(Date_2021_06_01),
     Str(Text_n_a), Str(<<>>), NaN}

InitTimeline ==
    /\ df \in {[cols |-> {"publication_date"},
                rows |-> [i \in DOMAIN dates |-> [publication_date |-> dates[i]]]] :
                 dates \in SeqsUpTo(TimelineDates, MaxRowsTimeline)}
    /\ arg = EmptyFrame
    /\ op = "none"
    /\ ret = Ok(0)
    /\ now = 2020
    /\ params = NoParams
    /\ ties = "ascending"
    /\ session = NewSession

NextTimeline == Call_publications_timeline

SpecTimeline == InitTimeline /\ [][NextTimeline]_vars

----------------------------------------------------------------------------
(* Properties of the publications timeline, checked under SpecTimeline *)

\* the timeline was computed
TimelineDrawn == op = "publications_timeline" /\ ret.exc = "none"

\* C25: the cumulative series is the running sum of the per-year counts in
\* ascending year order, its last value is the number of dated records, the
\* growth rate of the first year is undefined and no row of the growth
\* output is for the first year, and every later year's growth rate is
\* defined.
C25_CumulativeRunningSumFirstGrowthExcluded ==
    TimelineDrawn =>
        LET rows == ret.val.pub_by_year
        IN  /\ \A k \in DOMAIN rows :
                  /\ k > 1 => rows[k - 1].year < rows[k].year
                  /\ rows[k].count = Cardinality(RecordsOfYear(rows[k].year))
                  /\ rows[k].cumulative = (IF k = 1 THEN 0 ELSE rows[k - 1].cumulative)
                                              + rows[k].count
                  /\ (k = 1) <=> (rows[k].growth_rate = NaN)
            /\ rows # <<>> => rows[Len(rows)].cumulative = Cardinality(DatedRecords(arg))
            /\ \A k \in DOMAIN ret.val.growth_data :
                  /\ ret.val.growth_data[k].year # rows[1].year
                  /\ ret.val.growth_data[k].growth_rate # NaN

\* 4 dated records over 3 years, the growth chart drawn with a fall and a
\* rise
C25_Witness ==
    /\ TimelineDrawn
    /\ Len(ret.val.pub_by_year) = 3
    /\ ret.val.pub_by_year[3].cumulative = 4
    /\ Len(ret.val.growth_data) = 2
    /\ \E k \in DOMAIN ret.val.growth_data : ret.val.growth_data[k].growth_rate.n # 0

----------------------------------------------------------------------------
(* Replies of the data source, for the normalizer *)

MaxWorks == 2

Text_10_1 == <<"1", "0", ".", "1">>

\* a title that is missing, null, empty, blank, text, text with a line
\* break, or no text at all
RawTitles ==
    {Absent, NaN, Str(<<>>), Str(<<" ">>), Str(Text_ab_cd), Str(<<"a", "b", "\n">>), Num(7)}

RawWorks ==
    {[title |-> t, cited_by_count |-> c, publication_date |-> Str(Date_2019_03_10),
      doi |-> d] :
        t \in RawTitles, c \in {Absent, Num(5)},
        d \in {NaN, Str(DoiPrefix \o Text_10_1), Num(7)}}

\* no reply, a single work, and pages of up to m works
RepliesOf(works, m) ==
    {NoReply} \cup {Work(w) : w \in works} \cup {Page(ws) : ws \in SeqsUpTo(works, m)}

\* the normalizer called on the reply of the data source held in df
Call_process_openalex_data ==
    /\ arg' = df
    /\ ret' = Ok(process_openalex_data(df))
    /\ op' = "process_openalex_data"
    /\ params' = NoParams
    /\ UNCHANGED <<df, now, ties, session>>

InitNormalizer ==
    /\ df \in RepliesOf(RawWorks, MaxWorks)
    /\ arg = EmptyFrame
    /\ op = "none"
    /\ ret = Ok(0)
    /\ now = 2020
    /\ params = NoParams
    /\ ties = "ascending"
    /\ session = NewSession

NextNormalizer == Call_process_openalex_data

SpecNormalizer == InitNormalizer /\ [][NextNormalizer]_vars

----------------------------------------------------------------------------
(* Properties of the normalizer, checked under SpecNormalizer *)

\* the works of the page handed over whose title is missing, null or empty
\* (works with a title that is no text are dropped and not counted here)
TitlelessWorks ==
    {i \in DOMAIN arg.results : arg.results[i]["title"] \in {Absent, NaN, Str(<<>>)}}

\* the row of the normalized batch made from work i of the page
RowOfWork(i) ==
    ret.val.rows[Cardinality({j \in 1..i : processable(arg.results[j])})]

\* C26: process_openalex_data gives every record whose source title is
\* missing, null or empty the placeholder title, so no normalized record has
\* an empty title.
C26_TitlelessGetPlaceholder ==
    (op = "process_openalex_data" /\ arg.kind = "page") =>
        /\ \A i \in TitlelessWorks : RowOfWork(i)["title"] = Str(Untitled)
        /\ \A k \in DOMAIN ret.val.rows : ret.val.rows[k]["title"] # Str(<<>>)

----------------------------------------------------------------------------
(* Sessions of the results page *)

MaxWorksSession == 2

\* a work with 5 citations, a title and a doi, and one with 20 citations,
\* a null title and no doi
SessionWorks ==
    {[title |-> Str(Text_ab_cd), cited_by_count |-> Num(5),
      publication_date |-> Str(Date_2021_06_01), doi |-> Str(DoiPrefix \o Text_10_1)],
     [title |-> NaN, cited_by_count |-> Num(20),
      publication_date |-> Str(Date_2019_03_10), doi |-> NaN]}

\* op, arg, ret and params tell of the search of the last run when that
\* run reached its end; any other run leaves op = "run" with no reply and
\* no batch normalized
NoSearch == [arg |-> NoReply, ret |-> Ok(EmptyFrame)]

SearchMethods == {"Topic/Keyword", "DOI"}

\* api_clients.py: get_work_by_doi returns the work or None, search_works a
\* page of works or None
RepliesTo(search_method) ==
    IF search_method = "DOI" THEN {NoReply} \cup {Work(w) : w \in SessionWorks}
    ELSE {NoReply} \cup {Page(ws) : ws \in SeqsUpTo(SessionWorks, MaxWorksSession)}

\* the citation slider: the whole range, and 10 citations or more
CitationRanges == {<<0, 10000>>, <<10, 10000>>}

\* what the scraper finds on the page of a record: nothing, or a text
ScrapedTexts == {<<>>, Text_cd_ef}

\* a run of the script with the search button pressed and a query entered,
\* which reaches its end
Run_search ==
    \E search_method \in SearchMethods, range \in CitationRanges :
        \E reply \in RepliesTo(search_method) :
            LET r == search_logic(session, reply, range[1], range[2])
                run == script_run(session, r.writes, r.raised, ties, FALSE, <<>>)
            IN  /\ run.completed # <<>>
                /\ session' = run.completed[1]
                /\ arg' = reply
                /\ ret' = Ok(r.results)
                /\ op' = "search"
                /\ params' = [NoParams EXCEPT !.search_method = search_method]
                /\ UNCHANGED <<df, now, ties>>

\* such a run ended before its end: before the search has written, after
\* the write of line 211 or of line 212, or at a later point of the run
Run_search_cut ==
    \E search_method \in SearchMethods, range \in CitationRanges :
        \E reply \in RepliesTo(search_method) :
            LET r == search_logic(session, reply, range[1], range[2])
                run == script_run(session, r.writes, r.raised, ties, FALSE, <<>>)
            IN  \E s \in run.cut :
                    /\ session' = s
                    /\ arg' = NoSearch.arg
                    /\ ret' = NoSearch.ret
                    /\ op' = "run"
                    /\ params' = NoParams
                    /\ UNCHANGED <<df, now, ties>>

\* a run of the script after the sort column or the sort order was changed
\* (or another widget of the page: the sort widgets keep their values)
Run_sort ==
    /\ drawn(session)
    /\ \E sort_by \in SortOptions, ascending \in BOOLEAN :
          LET run == script_run([session EXCEPT !.sort_by = sort_by, !.ascending = ascending],
                                <<>>, FALSE, ties, FALSE, <<>>)
          IN  /\ session' = run.completed[1]
              /\ op' = "run"
              /\ params' = NoParams
              /\ arg' = NoSearch.arg
              /\ ret' = NoSearch.ret
              /\ UNCHANGED <<df, now, ties>>

\* such a run ended before its end
Run_sort_cut ==
    /\ drawn(session)
    /\ \E sort_by \in SortOptions, ascending \in BOOLEAN :
          LET run == script_run([session EXCEPT !.sort_by = sort_by, !.ascending = ascending],
                                <<>>, FALSE, ties, FALSE, <<>>)
          IN  \E s \in run.cut :
                  /\ session' = s
                  /\ op' = "run"
                  /\ params' = NoParams
                  /\ arg' = NoSearch.arg
                  /\ ret' = NoSearch.ret
                  /\ UNCHANGED <<df, now, ties>>

\* a run of the script with the enrich button pressed that reaches its
\* end: the scraper of line 306 has answered and line 307 has stored
Run_enrich ==
    /\ drawn(session)
    /\ \E contents \in [1..Len(session.search_results[1].rows) -> ScrapedTexts] :
          LET run == script_run(session, <<>>, FALSE, ties, TRUE, contents)
          IN  /\ session' = run.completed[1]
              /\ op' = "run"
              /\ params' = NoParams
              /\ arg' = NoSearch.arg
              /\ ret' = NoSearch.ret
              /\ UNCHANGED <<df, now, ties>>

\* such a run ended before its end: before line 307 (the run waits for the
\* scraper inside line 306 and is ended at the access of line 307, storing
\* nothing of it) or after
Run_enrich_cut ==
    /\ drawn(session)
    /\ \E contents \in [1..Len(session.search_results[1].rows) -> ScrapedTexts] :
          LET run == script_run(session, <<>>, FALSE, ties, TRUE, contents)
          IN  \E s \in run.cut :
                  /\ session' = s
                  /\ op' = "run"
                  /\ params' = NoParams
                  /\ arg' = NoSearch.arg
                  /\ ret' = NoSearch.ret
                  /\ UNCHANGED <<df, now, ties>>

\* a page of src/pages is opened; its run reaches its end or is ended
\* before (after the write of the page)
Open_page ==
    \E page \in Pages, completed \in BOOLEAN :
        /\ session' = LET s == IF page = "Citation Distribution"
                                THEN citation_distribution_page(session)
                                ELSE session
                      IN  IF completed THEN widgets_dropped(s) ELSE s
        /\ op' = "run"
        /\ params' = NoParams
        /\ arg' = NoSearch.arg
        /\ ret' = NoSearch.ret
        /\ UNCHANGED <<df, now, ties>>

InitSession ==
    /\ df = EmptyFrame
    /\ arg = EmptyFrame
    /\ op = "none"
    /\ ret = Ok(0)
    /\ now = 2020
    /\ params = NoParams
    /\ ties \in TieOrders \* line 289 sorts with quicksort, which is not stable
    /\ session = NewSession

NextSession ==
    \/ Run_search
    \/ Run_search_cut
    \/ Run_sort
    \/ Run_sort_cut
    \/ Run_enrich
    \/ Run_enrich_cut
    \/ Open_page

SpecSession == InitSession /\ [][NextSession]_vars

\* the sessions in which every search run reaches its end: searches, sorts,
\* enrichments and page visits, the sort, enrich and page runs also ended
\* before their end
NextSearchesWhole ==
    \/ Run_search
    \/ Run_sort
    \/ Run_sort_cut
    \/ Run_enrich
    \/ Run_enrich_cut
    \/ Open_page

SpecSearchesWhole == InitSession /\ [][NextSearchesWhole]_vars

----------------------------------------------------------------------------
(* Properties of the session: C29 checked under SpecSession, C30 under     *)
(* SpecSearchesWhole                                                       *)

\* C29: a DOI search whose lookup succeeds and returns a single work record
\* is normalized into a one-record batch, so the session ends with
\* search_performed true and that record stored as search_results.
C29_DoiSearchStoresTheWork ==
    (op = "search" /\ params.search_method = "DOI" /\ arg.kind = "work") =>
        /\ Len(ret.val.rows) = 1
        /\ session.search_performed
        /\ session.search_results # <<>>
        /\ Len(session.search_results[1].rows) = 1
        /\ session.search_results[1].rows[1]["title"] = title_of(arg.results[1])

\* C30: in every session state reachable by searches (successful, empty or
\* emptied by the filter), sorts and enrichments, if search_performed is
\* true then search_results is a non-empty batch and the stored metrics are
\* calculate_metrics of that batch; and a search that yields no records
\* leaves search_performed false.
C30_PerformedMeansResultsAndTheirMetrics ==
    /\ session.search_performed =>
          /\ session.search_results # <<>>
          /\ ~empty(session.search_results[1])
          /\ session.metrics = <<calculate_metrics(session.search_results[1]).val>>
    /\ (op = "search" /\ empty(ret.val)) => ~session.search_performed

\* a search emptied by the citation range after a successful one whose
\* results were enriched: the old results and their metrics are still
\* stored, search_performed is false
C30_Witness ==
    /\ op = "search"
    /\ ~empty(process_openalex_data(arg))
    /\ empty(ret.val)
    /\ ~session.search_performed
    /\ session.search_results # <<>>
    /\ "full_text" \in session.search_results[1].cols
    /\ session.metrics # <<>>
    /\ session.metrics[1].total_citations = Frac(25, 1)

====
